---- MODULE Spec2Model ----
(***************************************************************************)
(* State-machine model of user_study_app.py: the Streamlit session state   *)
(* of one participant, the page wizard, the quiz and the three study       *)
(* parts, and the response sink (Google Sheet with a local JSONL backup).  *)
(*                                                                         *)
(* One script run of the Streamlit app is one action.  A widget callback   *)
(* (on_click / on_change) or an `if st.button(...)` body is the action of  *)
(* the run it triggers; the side effects a run has while it only renders   *)
(* (watch timer, lazy creation of a view state, marking a summary as       *)
(* typed, automatic page or part changes) are the render actions.  A       *)
(* control can be clicked only on a page that a completed run has drawn,   *)
(* so the user actions are guarded by Settled; the sidebar is drawn before *)
(* the watch timer sleeps, so the sidebar jumps are also enabled during    *)
(* the timer.                                                              *)
(***************************************************************************)
EXTENDS Integers, Sequences, FiniteSets, TLC

(***************************************************************************)
(* Bounds of the model.                                                    *)
(***************************************************************************)
\* budget of disruptions of the forward path per session: a quiz restart takes
\* two units; a sidebar jump (jump_to_part, jump_to_study_part,
\* jump_to_study_item) and a call of save_response in which the sink fails (a
\* connection that is not made, an append_row or a file write that raises) take
\* three units each, but a sidebar jump that enters the last quiz part, or
\* leaves or enters the last study part, takes two units, so that a participant
\* can jump and restart the quiz, or leave the last study item and come back
MaxDisruptions == 4

\* the sizes of the quiz parts and samples for which the arithmetic of
\* handle_next_quiz_question is checked besides the content below: up to
\* MaxSamples samples per part and MaxSubQuestions questions per sample
MaxSamples == 3
MaxMissing == 2
MaxSubQuestions == 3

(***************************************************************************)
(* Content Store: the JSON documents read by load_data.  The documents are *)
(* not part of the source; the content below is a small instance with the  *)
(* part names and item shapes the code relies on.                          *)
(***************************************************************************)
None == "None"

\* quiz_data.json: part name -> ordered samples (dict order = file order)
QuizPartKeys ==
    << "Part 1: Tone Identification",
       "Part 2: Tone Controllability Evaluation",
       "Part 3: Caption Quality" >>

\* the keys for which `"Caption Quality" in current_part_key` holds
CaptionQualityKeys == { "Part 3: Caption Quality" }
\* the keys for which `"Tone Controllability" in current_part_key` holds
ToneControllabilityKeys == { "Part 2: Tone Controllability Evaluation" }

SingleQuestion == [ question_type |-> "single", options |-> <<"o1", "o2">>,
                    correct_answer |-> "o1" ]
MultiQuestion  == [ question_type |-> "multi", options |-> <<"o1", "o2", "o3">>,
                    correct_answer |-> {"o1", "o2"} ]

\* A quiz sample.  In the Caption Quality part the questions are the sample's
\* "questions" list; in the other parts the sample itself is the one question.
QuizData ==
    [ p \in { QuizPartKeys[i] : i \in 1..Len(QuizPartKeys) } |->
        CASE p = "Part 1: Tone Identification" ->
               << [ sample_id |-> "ti1", video_id |-> "vidA", questions |-> << SingleQuestion >> ],
                  [ sample_id |-> "ti2", video_id |-> "vidB", questions |-> << MultiQuestion >> ] >>
          [] p = "Part 2: Tone Controllability Evaluation" ->
               << [ sample_id |-> "tc1", video_id |-> "vidB", questions |-> << SingleQuestion >> ] >>
          [] p = "Part 3: Caption Quality" ->
               << [ sample_id |-> "cq1", video_id |-> "vidC",
                    questions |-> << SingleQuestion, SingleQuestion >> ] >> ]

\* study_data.json
Part1Ratings ==
    << [ video_id |-> "vidA",
         captions |-> << [ caption_id |-> "capA1" ], [ caption_id |-> "capA2" ] >> ],
       [ video_id |-> "vidD",
         captions |-> << [ caption_id |-> "capD1" ] >> ] >>
Part2IntensityChange ==
    << [ change_id |-> "chg1", video_id |-> "vidD" ] >>
Part3Comparisons ==
    << [ comparison_id |-> "cmp1", video_id |-> "vidE" ] >>

\* questions.json: ids of part1_questions without 'overall_relevance', in order
\* (the page draws exactly five sliders)
Part1QuestionIds ==
    << "tone_relevance", "style_relevance", "factual_consistency",
       "usefulness", "human_likeness" >>
\* questions.json: ids of part3_questions, in order (the page draws exactly four radios)
Part3QuestionIds == << "q1_tone", "q2_style", "q3", "q4" >>

Range(s) == { s[i] : i \in 1..Len(s) }

\* passing_score of the quiz_results page
passing_score == 5

Pages == << "demographics", "intro_video", "what_is_tone", "factual_info",
            "quiz", "quiz_results", "user_study_main", "final_thank_you" >>

(***************************************************************************)
(* load_data: the files it needs and the document it returns.              *)
(***************************************************************************)
INTRO_VIDEO_PATH == "media/start_video_slower.mp4"

\* required_files of load_data
required_files ==
    { "instructions.json", "quiz_data.json", "study_data.json", "questions.json",
      "definitions.json" }

\* item['video_path'] of a quiz or study item
video_path(item) == "media/" \o item.video_id \o ".mp4"

\* the items load_data visits for video metadata
QuizVideoItems == UNION { Range(QuizData[p]) : p \in DOMAIN QuizData }
StudyVideoItems ==
    Range(Part1Ratings) \cup Range(Part2IntensityChange) \cup Range(Part3Comparisons)

\* every path the application reads
AllFiles ==
    required_files \cup { INTRO_VIDEO_PATH }
        \cup { video_path(item) : item \in QuizVideoItems \cup StudyVideoItems }

\* definitions.json: category -> term -> text; a category may be absent
Categories == { "tones", "writing_styles", "applications" }
Terms == { "Formal", "Playful" }
DefinitionText(category, term) == term \o " as defined in " \o category
DefinitionDocuments ==
    UNION { { [ c \in cs |-> [ t \in f[c] |-> DefinitionText(c, t) ] ] :
                f \in [ cs -> SUBSET Terms ] } : cs \in SUBSET Categories }

\* the definitions.json of the content instance
ContentDefinitions ==
    [ c \in Categories |->
        [ t \in (IF c = "tones" THEN Terms ELSE { "Formal" }) |-> DefinitionText(c, t) ] ]

\* dict.get(key, default)
Get(d, key, default) == IF key \in DOMAIN d THEN d[key] ELSE default

\* d.update(e)
Update(d, e) ==
    [ k \in DOMAIN d \cup DOMAIN e |-> IF k \in DOMAIN e THEN e[k] ELSE d[k] ]

\* flat_definitions merged in the order applications, writing_styles, tones
FlatDefinitionsReversed(doc) ==
    Update(Update(Update(<<>>, Get(doc, "applications", <<>>)),
                  Get(doc, "writing_styles", <<>>)),
           Get(doc, "tones", <<>>))

\* flat_definitions of load_data
flat_definitions(doc) ==
    Update(Update(Update(<<>>, Get(doc, "tones", <<>>)),
                  Get(doc, "writing_styles", <<>>)),
           Get(doc, "applications", <<>>))

\* the metadata load_data stores on an item
ItemMetadata(fs, item) ==
    IF video_path(item) \in fs
    THEN "get_video_metadata"
    ELSE [ orientation |-> "landscape", duration |-> 10 ]

\* what load_data returns when a file is missing (Python None)
NoData == [ error |-> "not found" ]

\* load_data over the files fs and the definitions document doc
load_data(fs, doc) ==
    IF ~(required_files \subseteq fs) THEN NoData
    ELSE IF INTRO_VIDEO_PATH \notin fs THEN NoData
    ELSE [ all_definitions |-> flat_definitions(doc),
           metadata |-> [ item \in QuizVideoItems \cup StudyVideoItems |-> ItemMetadata(fs, item) ] ]

(***************************************************************************)
(* Session state (st.session_state) and the external sink.                 *)
(***************************************************************************)
VARIABLES
    page,
    email, age, gender,
    current_part_index, current_sample_index, current_rating_question_index,
    show_feedback, score,
    study_part, current_video_index, current_caption_index,
    current_comparison_index, current_change_index,
    comprehension_passed_video_ids,
    view_state,          \* view_state_* keys: key -> view-state dict
    timer_finished,      \* set of timer_finished_* keys that are True
    summary_typed,       \* set of *summary_typed* keys that are True
    p3_radio,            \* part 3 radio widgets of the current item holding a value
    sink,                \* gsheet connection cache, sheet rows, backup rows
    files,               \* the paths for which os.path.exists holds
    definitions,         \* the document in definitions.json
    all_data,            \* st.session_state.all_data
    disruptions,         \* bound counter of the model
    last,                \* the handler of the last run and its save_response results
    history              \* what happened so far: quiz restarts, sidebar jumps, and
                         \* the validated quiz submissions evaluated as correct
                         \* since the last reset of the score

participant == << email, age, gender >>
quiz_cursor == << current_part_index, current_sample_index, current_rating_question_index >>
study_cursor == << study_part, current_video_index, current_caption_index,
                   current_comparison_index, current_change_index >>
item_state == << view_state, timer_finished, summary_typed, p3_radio >>
vars == << page, email, age, gender, current_part_index, current_sample_index,
           current_rating_question_index, show_feedback, score, study_part,
           current_video_index, current_caption_index, current_comparison_index,
           current_change_index, comprehension_passed_video_ids, view_state,
           timer_finished, summary_typed, p3_radio, sink, files, definitions,
           all_data, disruptions, last, history >>

(***************************************************************************)
(* Response Sink: save_response, with connect_to_gsheet (cached by         *)
(* st.cache_resource) and save_response_locally.  What the network and the *)
(* file system do in one call is the outcome o, chosen by the environment: *)
(* o.conn (the connection is made), o.check (the read of cell A1 works),   *)
(* o.append (which append_row raises) and o.local (the write to the backup *)
(* file works).                                                            *)
(***************************************************************************)
Outcomes == [ conn : BOOLEAN, check : BOOLEAN,
              append : {"ok", "header_raises", "row_raises"}, local : BOOLEAN ]

EmptySink == [ gsheet |-> "uncached", header |-> FALSE, sheet |-> <<>>, backup |-> <<>> ]

\* the cached result of connect_to_gsheet: the worksheet, or None for good
connect_to_gsheet(cache, o) ==
    IF cache # "uncached" THEN cache
    ELSE IF o.conn THEN "worksheet" ELSE "none"

\* save_response_locally returning True from the except branch as well
SavedLocallyOrNot(backup, row, o) ==
    [ backup |-> IF o.local THEN Append(backup, row) ELSE backup, ok |-> TRUE ]

\* appends the row to the backup file; [backup, ok]
save_response_locally(backup, row, o) ==
    IF o.local THEN [ backup |-> Append(backup, row), ok |-> TRUE ]
    ELSE [ backup |-> backup, ok |-> FALSE ]

\* [snk, ok]: the sink after the call and the value save_response returns
save_response(snk, row, o) ==
    LET worksheet == connect_to_gsheet(snk.gsheet, o)
        header_needed == ~snk.header \/ ~o.check
        locally == save_response_locally(snk.backup, row, o)
        fallback(hdr) ==
            [ snk |-> [ gsheet |-> worksheet, header |-> hdr, sheet |-> snk.sheet,
                        backup |-> locally.backup ],
              ok |-> locally.ok ]
    IN  IF worksheet = "worksheet"
        THEN IF header_needed /\ o.append = "header_raises" THEN fallback(snk.header)
             ELSE IF o.append = "row_raises" THEN fallback(TRUE)
             ELSE [ snk |-> [ gsheet |-> worksheet, header |-> TRUE,
                              sheet |-> Append(snk.sheet, row), backup |-> snk.backup ],
                    ok |-> TRUE ]
        ELSE fallback(snk.header)

\* An outcome says nothing about a call that is not made: the choices that
\* save_response does not consult keep their default.
Consulted(snk, o) ==
    LET worksheet == connect_to_gsheet(snk.gsheet, o)
        primary_fails == worksheet # "worksheet" \/ o.append # "ok"
    IN  /\ (snk.gsheet # "uncached" => o.conn)
        /\ (worksheet # "worksheet" => o.check /\ o.append = "ok")
        /\ (o.append = "header_raises" => ~snk.header \/ ~o.check)
        /\ (~primary_fails => o.local)

\* a call of save_response in which the network or the file system fails takes
\* three units of the budget of disruptions
Cost(snk, o) ==
    IF o.conn /\ o.check /\ o.append = "ok" /\ o.local THEN 0 ELSE 3

\* number of rows equal to row in a channel (a sequence of rows), and in a sink
Count(rows, row) == Cardinality({ i \in 1..Len(rows) : rows[i] = row })
RecordedIn(snk, row) == Count(snk.sheet, row) + Count(snk.backup, row)

\* The save loops.  A run is [snk, saved, faults]: the sink, the results of the
\* save_response calls made so far, and the failures used.
RECURSIVE SaveLoop(_, _, _)
SaveLoop(run, rows, stop_at_failure) ==
    IF rows = <<>> THEN { run }
    ELSE UNION {
        LET r == save_response(run.snk, Head(rows), o)
            next == [ snk |-> r.snk, saved |-> Append(run.saved, r.ok),
                      faults |-> run.faults + Cost(run.snk, o) ]
        IN  IF ~r.ok /\ stop_at_failure THEN { next }
            ELSE SaveLoop(next, Tail(rows), stop_at_failure)
        : o \in { x \in Outcomes : /\ Consulted(run.snk, x)
                                   /\ run.faults + Cost(run.snk, x) <= MaxDisruptions } }

\* for ...: if not save_response(...): all_saved = False; break
SaveEach(rows) == SaveLoop([ snk |-> sink, saved |-> <<>>, faults |-> disruptions ], rows, TRUE)
\* success1 = save_response(...); success2 = save_response(...)
SaveBoth(rows) == SaveLoop([ snk |-> sink, saved |-> <<>>, faults |-> disruptions ], rows, FALSE)

AllTrue(saved) == \A i \in 1..Len(saved) : saved[i]

(***************************************************************************)
(* Demographics input.  An e-mail address is the text typed in the field;  *)
(* email_regex is matched on its characters.                               *)
(***************************************************************************)
EmailText ==
    [ e \in { "", "a@b.com", "a@b", "a@b.c", "debug@test.com" } |->
        CASE e = "" -> <<>>
          [] e = "a@b.com" -> << "a", "@", "b", ".", "c", "o", "m" >>
          [] e = "a@b" -> << "a", "@", "b" >>
          [] e = "a@b.c" -> << "a", "@", "b", ".", "c" >>
          [] e = "debug@test.com" ->
               << "d", "e", "b", "u", "g", "@", "t", "e", "s", "t", ".", "c", "o", "m" >> ]

Letters ==
    { "a", "b", "c", "d", "e", "f", "g", "h", "i", "j", "k", "l", "m", "n", "o", "p",
      "q", "r", "s", "t", "u", "v", "w", "x", "y", "z",
      "A", "B", "C", "D", "E", "F", "G", "H", "I", "J", "K", "L", "M", "N", "O", "P",
      "Q", "R", "S", "T", "U", "V", "W", "X", "Y", "Z" }
Digits == { "0", "1", "2", "3", "4", "5", "6", "7", "8", "9" }
LocalChars == Letters \cup Digits \cup { ".", "_", "%", "+", "-" }
DomainChars == Letters \cup Digits \cup { ".", "-" }

\* email_regex_match with [a-zA-Z]+ for [a-zA-Z]{2,}
MatchWithShortTld(t) ==
    \E i \in 1..Len(t) : \E j \in 1..Len(t) :
        /\ 1 < i /\ i + 1 < j /\ j + 1 <= Len(t)
        /\ t[i] = "@" /\ t[j] = "."
        /\ \A k \in 1..(i - 1) : t[k] \in LocalChars
        /\ \A k \in (i + 1)..(j - 1) : t[k] \in DomainChars
        /\ \A k \in (j + 1)..Len(t) : t[k] \in Letters

\* re.match(r'^[a-zA-Z0-9._%+-]+@[a-zA-Z0-9.-]+\.[a-zA-Z]{2,}$', email);
\* $ also matches before a newline that ends the text
email_regex_match(t) ==
    LET n == IF Len(t) > 0 /\ t[Len(t)] = "\n" THEN Len(t) - 1 ELSE Len(t)
    IN  \E i \in 1..n : \E j \in 1..n :
            /\ 1 < i /\ i + 1 < j /\ j + 2 <= n
            /\ t[i] = "@" /\ t[j] = "."
            /\ \A k \in 1..(i - 1) : t[k] \in LocalChars
            /\ \A k \in (i + 1)..(j - 1) : t[k] \in DomainChars
            /\ \A k \in (j + 1)..n : t[k] \in Letters

\* the values the form fields can hold when Next is clicked (0: no age selected)
EmailInputs == { "", "a@b.com", "a@b", "a@b.c" }
AgeInputs == { 0, 25 }
GenderInputs == { None, "Other / Prefer not to say" }

(***************************************************************************)
(* The item under the cursor on the quiz page (indices are 0-based in the  *)
(* code, sequences 1-based here).                                          *)
(***************************************************************************)
part_keys == QuizPartKeys
current_part_key == part_keys[current_part_index + 1]
questions_for_part == QuizData[current_part_key]
sample == questions_for_part[current_sample_index + 1]

IsCaptionQuality == current_part_key \in CaptionQualityKeys

\* is_part2_first_question with no sample designated
NoDesignatedSample == FALSE

is_part2_first_question ==
    current_part_key = "Part 2: Tone Controllability Evaluation" /\ current_sample_index = 0
is_second_quality_question == IsCaptionQuality /\ current_rating_question_index > 0
question_data ==
    IF IsCaptionQuality THEN sample.questions[current_rating_question_index + 1]
    ELSE sample.questions[1]

QuizTimerKey(s) == << "timer_finished_quiz_", s.sample_id >>
QuizViewKey(s) == << "view_state_", s.sample_id >>
QuizSummaryKey(s) == << "view_state_*_summary_typed", s.sample_id >>

\* the quiz page is past its completion check and shows a sample
QuizShowsSample == page = "quiz" /\ current_part_index < Len(part_keys)
\* QuizTimerGate with the first sample of every part exempted
QuizTimerGateFirstSamples ==
    /\ page = "quiz" /\ current_part_index < Len(part_keys)
    /\ QuizTimerKey(sample) \notin timer_finished
    /\ ~is_second_quality_question
    /\ current_sample_index # 0

\* the run sleeps in the watch timer of the sample
QuizTimerGate ==
    /\ QuizShowsSample
    /\ QuizTimerKey(sample) \notin timer_finished
    /\ ~is_second_quality_question
    /\ ~is_part2_first_question

(***************************************************************************)
(* The item under the cursor in the three study parts.                     *)
(***************************************************************************)
all_videos == Part1Ratings
all_changes == Part2IntensityChange
all_comparisons == Part3Comparisons

current_video == all_videos[current_video_index + 1]
current_caption == current_video.captions[current_caption_index + 1]
current_change == all_changes[current_change_index + 1]
current_comp == all_comparisons[current_comparison_index + 1]

Part1ShowsItem ==
    page = "user_study_main" /\ study_part = 1 /\ current_video_index < Len(all_videos)
Part2ShowsItem ==
    page = "user_study_main" /\ study_part = 2 /\ current_change_index < Len(all_changes)
Part3ShowsItem ==
    page = "user_study_main" /\ study_part = 3
    /\ current_comparison_index < Len(all_comparisons)

\* has_been_watched without the lookup in the set
NeverWatched(item) == FALSE

has_been_watched(item) == item.video_id \in comprehension_passed_video_ids

Part1TimerKey(v) == << "timer_finished_", v.video_id >>
Part1ViewKey(c) == << "view_state_p1_", c.caption_id >>
Part1SummaryKey(v) == << "summary_typed_", v.video_id >>
Part2TimerKey(c) == << "timer_finished_", c.change_id >>
Part2ViewKey(c) == << "view_state_p2_", c.change_id >>
Part2SummaryKey(c) == << "summary_typed_p2_", c.change_id >>
Part3TimerKey(c) == << "timer_finished_", c.comparison_id >>
Part3ViewKey(c) == << "view_state_p3_", c.comparison_id >>
Part3SummaryKey(c) == << "summary_typed_p3_", c.comparison_id >>

Part1TimerGate ==
    /\ Part1ShowsItem
    /\ Part1TimerKey(current_video) \notin timer_finished
    /\ current_caption_index = 0
    /\ ~has_been_watched(current_video)
Part2TimerGate ==
    /\ Part2ShowsItem
    /\ Part2TimerKey(current_change) \notin timer_finished
    /\ ~has_been_watched(current_change)
Part3TimerGate ==
    /\ Part3ShowsItem
    /\ Part3TimerKey(current_comp) \notin timer_finished
    /\ ~has_been_watched(current_comp)

(***************************************************************************)
(* st.session_state as a dictionary: pop, item assignment.                 *)
(***************************************************************************)
Pop(d, k) == [ x \in (DOMAIN d) \ {k} |-> d[x] ]
Put(d, k, v) == [ x \in (DOMAIN d) \cup {k} |-> IF x = k THEN v ELSE d[x] ]
SetStep(d, k, n) == Put(d, k, [ d[k] EXCEPT !.step = n ])

NoInteraction(ids) == [ i \in 1..Len(ids) |-> FALSE ]
num_interacted(v) == Cardinality({ i \in DOMAIN v.interacted : v.interacted[i] })

\* questions_to_show with one more question drawn ahead
QuestionsToShowAhead(v) == num_interacted(v) + 2

\* questions_to_show = num_interacted + 1
questions_to_show(v) == num_interacted(v) + 1

Init ==
    /\ page = "demographics"
    /\ email = None /\ age = 0 /\ gender = None
    /\ current_part_index = 0 /\ current_sample_index = 0
    /\ show_feedback = FALSE
    /\ current_rating_question_index = 0
    /\ score = 0
    /\ study_part = 1
    /\ current_video_index = 0 /\ current_caption_index = 0
    /\ current_comparison_index = 0 /\ current_change_index = 0
    /\ comprehension_passed_video_ids = {}
    /\ view_state = <<>>
    /\ timer_finished = {}
    /\ summary_typed = {}
    /\ p3_radio = {}
    /\ sink = EmptySink
    /\ files = AllFiles
    /\ definitions = ContentDefinitions
    /\ all_data = load_data(files, definitions)
    /\ disruptions = 0
    /\ last = [ act |-> "init", saved |-> <<>> ]
    /\ history = [ restarts |-> 0, jumps |-> 0, correct_submissions |-> 0 ]

\* a script run gets past `if st.session_state.all_data is None: st.stop()`
Running ==
    /\ all_data # NoData
    /\ UNCHANGED << files, definitions, all_data >>

Ran(name) ==
    /\ Running
    /\ last' = [ act |-> name, saved |-> <<>> ] /\ UNCHANGED history
Jumped(name) ==
    /\ Running
    /\ last' = [ act |-> name, saved |-> <<>> ]
    /\ history' = [ history EXCEPT !.jumps = @ + 1 ]

(***************************************************************************)
(* What a run that only renders still has to do in the current state.      *)
(***************************************************************************)
\* QuizCompleted with the cursor on the last part taken for past it
QuizCompletedAtLastPart == page = "quiz" /\ current_part_index >= Len(part_keys) - 1

QuizCompleted == page = "quiz" /\ current_part_index >= Len(part_keys)

QuizRenderPending ==
    /\ QuizShowsSample /\ ~QuizTimerGate
    /\ LET k == QuizViewKey(sample)
       IN  \/ k \notin DOMAIN view_state
           \/ /\ k \in DOMAIN view_state
              /\ \/ view_state[k].step >= 2 /\ QuizSummaryKey(sample) \notin summary_typed
                 \/ view_state[k].step = 5 /\ is_second_quality_question

Part1Completed ==
    page = "user_study_main" /\ study_part = 1 /\ current_video_index >= Len(all_videos)
Part2Completed ==
    page = "user_study_main" /\ study_part = 2 /\ current_change_index >= Len(all_changes)
\* Part3Completed with > for >=
Part3CompletedPastEnd ==
    page = "user_study_main" /\ study_part = 3
    /\ current_comparison_index > Len(all_comparisons)

Part3Completed ==
    page = "user_study_main" /\ study_part = 3
    /\ current_comparison_index >= Len(all_comparisons)

Part1RenderPending ==
    /\ Part1ShowsItem /\ ~Part1TimerGate
    /\ LET k == Part1ViewKey(current_caption)
       IN  \/ k \notin DOMAIN view_state
           \/ /\ k \in DOMAIN view_state
              /\ current_caption_index = 0 /\ view_state[k].step >= 2
              /\ Part1SummaryKey(current_video) \notin summary_typed
Part2RenderPending ==
    /\ Part2ShowsItem /\ ~Part2TimerGate
    /\ LET k == Part2ViewKey(current_change)
       IN  \/ k \notin DOMAIN view_state
           \/ /\ k \in DOMAIN view_state
              /\ view_state[k].step >= 2
              /\ Part2SummaryKey(current_change) \notin summary_typed
Part3RenderPending ==
    /\ Part3ShowsItem /\ ~Part3TimerGate
    /\ LET k == Part3ViewKey(current_comp)
       IN  \/ k \notin DOMAIN view_state
           \/ /\ k \in DOMAIN view_state
              /\ view_state[k].step >= 2
              /\ Part3SummaryKey(current_comp) \notin summary_typed

TimerGate == QuizTimerGate \/ Part1TimerGate \/ Part2TimerGate \/ Part3TimerGate

\* a completed run has drawn the page: its controls can be used
Settled ==
    /\ ~TimerGate
    /\ ~QuizCompleted /\ ~QuizRenderPending
    /\ ~Part1Completed /\ ~Part2Completed /\ ~Part3Completed
    /\ ~Part1RenderPending /\ ~Part2RenderPending /\ ~Part3RenderPending

quiz_state == << current_part_index, current_sample_index,
                 current_rating_question_index, show_feedback, score >>
sink_state == << sink, disruptions >>

(***************************************************************************)
(* Pages demographics, intro_video, what_is_tone, factual_info.            *)
(***************************************************************************)
\* "DEBUG: Skip to Main Study"
DebugSkip ==
    /\ page = "demographics"
    /\ email' = "debug@test.com"
    /\ age' = 25
    /\ gender' = "Prefer not to say"
    /\ page' = "user_study_main"
    /\ Ran("debug_skip")
    /\ UNCHANGED << quiz_state, study_cursor, comprehension_passed_video_ids,
                    item_state, sink_state >>

\* DemographicsValid with all([email]) for all([email, age, gender])
DemographicsValidEmailOnly(e, a, g) ==
    /\ e # ""
    /\ email_regex_match(EmailText[e])

\* the fields are accepted: all([email, age, gender]) and the regex matches
DemographicsValid(e, a, g) ==
    /\ e # "" /\ a # 0 /\ g # None
    /\ email_regex_match(EmailText[e])

\* "Next" with the three fields holding e, a and g
DemographicsNextOf(e, a, g) ==
    IF DemographicsValid(e, a, g)
    THEN /\ email' = e /\ age' = a /\ gender' = g
         /\ page' = "intro_video"
    ELSE UNCHANGED << page, email, age, gender >>

\* "Next", shown once the consent checkbox is ticked
DemographicsNext ==
    /\ page = "demographics"
    /\ \E e \in EmailInputs, a \in AgeInputs, g \in GenderInputs :
          DemographicsNextOf(e, a, g)
    /\ Ran("demographics_next")
    /\ UNCHANGED << quiz_state, study_cursor, comprehension_passed_video_ids,
                    item_state, sink_state >>

\* a button whose body is: st.session_state.page = target; st.rerun()
GoToPage(from, label, target) ==
    /\ page = from
    /\ page' = target
    /\ Ran(label)
    /\ UNCHANGED << participant, quiz_state, study_cursor,
                    comprehension_passed_video_ids, item_state, sink_state >>

IntroVideoNext == GoToPage("intro_video", "intro_video_next", "what_is_tone")
WhatIsTonePrev == GoToPage("what_is_tone", "what_is_tone_prev", "intro_video")
WhatIsToneNext == GoToPage("what_is_tone", "what_is_tone_next", "factual_info")
FactualInfoPrev == GoToPage("factual_info", "factual_info_prev", "what_is_tone")
StartQuiz == GoToPage("factual_info", "start_quiz", "quiz")

(***************************************************************************)
(* render_comprehension_quiz(sample, view_state_key, proceed_step)         *)
(***************************************************************************)
\* the radio of the comprehension form: no option, the answer or a distractor
ComprehensionInputs == { None, "road_event_answer", "distractor_answer" }

\* ComprehensionSubmitted without `if choice`
ComprehensionRecorded(v, choice) ==
    [ v EXCEPT !.comp_choice = choice, !.comp_feedback = TRUE ]

\* form "Submit": a chosen option is recorded, no option is an error message
ComprehensionSubmitted(v, choice) ==
    IF choice # None THEN [ v EXCEPT !.comp_choice = choice, !.comp_feedback = TRUE ]
    ELSE v

\* WatchedAfter as an assignment of a new set
WatchedOnly(ids, video_id) == { video_id }
\* WatchedAfter without the call of add
WatchedNotAdded(ids, video_id) == ids

\* comprehension_passed_video_ids.add(video_id)
WatchedAfter(ids, video_id) == ids \cup { video_id }

\* form "Submit" of the comprehension check with the radio holding choice
ComprehensionSubmitOf(k, label, choice) ==
    /\ k \in DOMAIN view_state
    /\ view_state[k].step \in {3, 4}
    /\ ~view_state[k].comp_feedback
    /\ view_state' = Put(view_state, k, ComprehensionSubmitted(view_state[k], choice))
    /\ Ran(label)
    /\ UNCHANGED << page, participant, quiz_state, study_cursor,
                    comprehension_passed_video_ids, timer_finished, summary_typed,
                    p3_radio, sink_state >>

ComprehensionSubmit(k, label) ==
    \E choice \in ComprehensionInputs : ComprehensionSubmitOf(k, label, choice)

\* ComprehensionProceed offered before the form was submitted
ComprehensionProceedUnanswered(item, k, proceed_step, label) ==
    /\ k \in DOMAIN view_state
    /\ view_state[k].step \in {3, 4}
    /\ view_state' = SetStep(view_state, k, proceed_step)
    /\ comprehension_passed_video_ids' =
          WatchedAfter(comprehension_passed_video_ids, item.video_id)
    /\ Ran(label)
    /\ UNCHANGED << page, participant, quiz_state, study_cursor, timer_finished,
                    summary_typed, p3_radio, sink_state >>

\* "Proceed to Caption(s)"
ComprehensionProceed(item, k, proceed_step, label) ==
    /\ k \in DOMAIN view_state
    /\ view_state[k].step \in {3, 4}
    /\ view_state[k].comp_feedback
    /\ view_state' = SetStep(view_state, k, proceed_step)
    /\ comprehension_passed_video_ids' =
          WatchedAfter(comprehension_passed_video_ids, item.video_id)
    /\ Ran(label)
    /\ UNCHANGED << page, participant, quiz_state, study_cursor, timer_finished,
                    summary_typed, p3_radio, sink_state >>

\* a button whose body is: st.session_state[view_state_key]['step'] = n; st.rerun()
StepButton(k, from, to, label) ==
    /\ k \in DOMAIN view_state
    /\ view_state[k].step = from
    /\ view_state' = SetStep(view_state, k, to)
    /\ Ran(label)
    /\ UNCHANGED << page, participant, quiz_state, study_cursor,
                    comprehension_passed_video_ids, timer_finished, summary_typed,
                    p3_radio, sink_state >>

\* time.sleep(duration); st.session_state[timer_finished_key] = True; st.rerun()
WatchTimer(k, label) ==
    /\ timer_finished' = timer_finished \cup { k }
    /\ Ran(label)
    /\ UNCHANGED << page, participant, quiz_state, study_cursor,
                    comprehension_passed_video_ids, view_state, summary_typed,
                    p3_radio, sink_state >>

(***************************************************************************)
(* Page quiz.                                                              *)
(***************************************************************************)
\* QuizFinished with the page after quiz_results as its target
QuizFinishedSkipsResults ==
    /\ QuizCompleted
    /\ page' = "user_study_main"
    /\ Ran("quiz_finished")
    /\ UNCHANGED << participant, quiz_state, study_cursor,
                    comprehension_passed_video_ids, item_state, sink_state >>

\* if current_part_index >= len(part_keys): page = 'quiz_results'
QuizFinished ==
    /\ QuizCompleted
    /\ page' = "quiz_results"
    /\ Ran("quiz_finished")
    /\ UNCHANGED << participant, quiz_state, study_cursor,
                    comprehension_passed_video_ids, item_state, sink_state >>

QuizWatchTimer == QuizTimerGate /\ WatchTimer(QuizTimerKey(sample), "quiz_timer")

QuizInitialStep ==
    IF is_part2_first_question THEN 5
    ELSE IF is_second_quality_question THEN 6 ELSE 1

\* the run that draws the sample at current_step plays the reveal of the
\* summary (st.write_stream) instead of showing the text at once (st.info)
QuizStreamsSummary(current_step) ==
    /\ current_step >= 2
    /\ ~(QuizSummaryKey(sample) \in summary_typed \/ is_part2_first_question)

\* the rendering run of a sample: lazy view state, summary, automatic step 6
QuizRender ==
    /\ QuizRenderPending
    /\ LET k == QuizViewKey(sample)
           created ==
               IF k \in DOMAIN view_state THEN view_state
               ELSE Put(view_state, k,
                        [ step |-> QuizInitialStep, summary_typed |-> FALSE,
                          comp_feedback |-> FALSE, comp_choice |-> None ])
           current_step == created[k].step
       IN  /\ summary_typed' =
                 IF current_step >= 2 THEN summary_typed \cup { QuizSummaryKey(sample) }
                 ELSE summary_typed
           /\ view_state' =
                 IF current_step = 5 /\ is_second_quality_question
                 THEN SetStep(created, k, 6) ELSE created
    /\ Ran("quiz_render")
    /\ UNCHANGED << page, participant, quiz_state, study_cursor,
                    comprehension_passed_video_ids, timer_finished, p3_radio,
                    sink_state >>

QuizSettled == QuizShowsSample /\ Settled

QuizProceedToSummary ==
    QuizSettled /\ StepButton(QuizViewKey(sample), 1, 2, "quiz_proceed_to_summary")
QuizProceedToQuestion ==
    QuizSettled /\ StepButton(QuizViewKey(sample), 2, 3, "quiz_proceed_to_question")
QuizComprehensionSubmit ==
    /\ QuizSettled /\ ~is_second_quality_question /\ ~is_part2_first_question
    /\ ComprehensionSubmit(QuizViewKey(sample), "quiz_comprehension_submit")
QuizComprehensionProceed ==
    /\ QuizSettled /\ ~is_second_quality_question /\ ~is_part2_first_question
    /\ ComprehensionProceed(sample, QuizViewKey(sample), 5, "quiz_comprehension_proceed")
QuizShowQuestions ==
    /\ QuizSettled /\ ~is_second_quality_question
    /\ StepButton(QuizViewKey(sample), 5, 6, "quiz_show_questions")

\* the answer form: checkboxes of a multi question, a radio otherwise
ChoiceInputs(q) ==
    IF q.question_type = "multi" THEN SUBSET Range(q.options)
    ELSE Range(q.options) \cup { None }

\* `not choice`: no radio option, or an empty list of ticked boxes
NoChoice(q, choice) ==
    IF q.question_type = "multi" THEN choice = {} ELSE choice = None

\* valid_submission without the count of the ticked boxes
ValidWhenChosen(q, choice) == ~NoChoice(q, choice)

valid_submission(q, choice) ==
    /\ ~NoChoice(q, choice)
    /\ (q.question_type = "multi" => Cardinality(choice) = 2)

\* set(choice) == set(correct_answer) for a list key, choice == correct_answer
\* otherwise (the answer key is a list exactly for the multi questions)
is_correct(q, choice) == choice = q.correct_answer

\* ScoreAfter without `if is_correct`
ScoreCountsEverySubmission(sc, correct) == sc + 1
\* ScoreAfter with a penalty for a wrong answer
ScorePenalisesWrong(sc, correct) == IF correct THEN sc + 1 ELSE sc - 1

\* if is_correct: st.session_state.score += 1
ScoreAfter(sc, correct) == IF correct THEN sc + 1 ELSE sc

\* FeedbackAfter without `if success`
FeedbackAlways(shown, success) == TRUE

\* if success: st.session_state.show_feedback = True
FeedbackAfter(shown, success) == IF success THEN TRUE ELSE shown

QuizRow ==
    << "quiz", sample.sample_id,
       IF IsCaptionQuality THEN current_rating_question_index + 1 ELSE 1 >>

\* form "Submit Answer" with the answer widgets holding choice
QuizSubmitOf(choice) ==
    IF valid_submission(question_data, choice)
    THEN \E run \in SaveEach(<< QuizRow >>) :
            /\ score' = ScoreAfter(score, is_correct(question_data, choice))
            /\ sink' = run.snk /\ disruptions' = run.faults
            /\ show_feedback' = FeedbackAfter(show_feedback, run.saved[1])
            /\ last' = [ act |-> "quiz_submit_answer", saved |-> run.saved ] /\ Running
            /\ history' =
                  IF choice = question_data.correct_answer
                  THEN [ history EXCEPT !.correct_submissions = @ + 1 ]
                  ELSE history
    ELSE /\ UNCHANGED << score, sink, disruptions, show_feedback >>
         /\ Ran("quiz_submit_answer")

\* form "Submit Answer"
QuizSubmitAnswer ==
    /\ QuizSettled
    /\ view_state[QuizViewKey(sample)].step >= 6
    /\ ~show_feedback
    /\ \E choice \in ChoiceInputs(question_data) : QuizSubmitOf(choice)
    /\ UNCHANGED << page, participant, current_part_index, current_sample_index,
                    current_rating_question_index, study_cursor,
                    comprehension_passed_video_ids, item_state >>

\* NextQuizCursor without the move to the next part after the last sample
NextQuizCursorInPart(part, smp, rating) ==
    LET key == part_keys[part + 1]
        s == QuizData[key][smp + 1]
    IN  IF key \in CaptionQualityKeys
        THEN IF rating + 1 >= Len(s.questions) THEN << part, smp + 1, 0 >>
             ELSE << part, smp, rating + 1 >>
        ELSE << part, smp + 1, rating >>

\* AdvanceQuizCursor iterating the sample index before the sub-question index
AdvanceSampleFirst(caption_quality, n_questions, n_samples, part, smp, rating) ==
    IF caption_quality
    THEN IF smp + 1 >= n_samples
         THEN IF rating + 1 >= n_questions THEN << part + 1, 0, 0 >>
              ELSE << part, 0, rating + 1 >>
         ELSE << part, smp + 1, rating >>
    ELSE IF smp + 1 >= n_samples THEN << part + 1, 0, rating >>
         ELSE << part, smp + 1, rating >>

\* the "logic to advance quiz state" for a sample with n_questions questions
\* in a part of n_samples samples: << part, sample, sub-question >>
AdvanceQuizCursor(caption_quality, n_questions, n_samples, part, smp, rating) ==
    IF caption_quality
    THEN IF rating + 1 >= n_questions
         THEN IF smp + 1 >= n_samples THEN << part + 1, 0, 0 >>
              ELSE << part, smp + 1, 0 >>
         ELSE << part, smp, rating + 1 >>
    ELSE IF smp + 1 >= n_samples THEN << part + 1, 0, rating >>
         ELSE << part, smp + 1, rating >>

\* the cursor after "Next Question" / "Finish Quiz": << part, sample, sub-question >>
NextQuizCursor(part, smp, rating) ==
    LET key == part_keys[part + 1]
        for_part == QuizData[key]
        s == for_part[smp + 1]
    IN  AdvanceQuizCursor(key \in CaptionQualityKeys, Len(s.questions), Len(for_part),
                          part, smp, rating)

\* on_click of "Next Question" / "Finish Quiz"
handle_next_quiz_question ==
    /\ QuizSettled
    /\ view_state[QuizViewKey(sample)].step >= 6
    /\ show_feedback
    /\ LET c == NextQuizCursor(current_part_index, current_sample_index,
                               current_rating_question_index)
       IN  /\ current_part_index' = c[1]
           /\ current_sample_index' = c[2]
           /\ current_rating_question_index' = c[3]
    /\ view_state' = Pop(view_state, QuizViewKey(sample))
    /\ show_feedback' = FALSE
    /\ Ran("handle_next_quiz_question")
    /\ UNCHANGED << page, participant, score, study_cursor,
                    comprehension_passed_video_ids, timer_finished, summary_typed,
                    p3_radio, sink_state >>

\* IsLastQuestion without the sub-question index
IsLastSample(caption_quality, n_parts, n_questions, n_samples, part, smp, rating) ==
    part = n_parts - 1 /\ smp = n_samples - 1

\* is_last_question for a quiz of n_parts parts, on a sample with n_questions
\* questions in a part of n_samples samples
IsLastQuestion(caption_quality, n_parts, n_questions, n_samples, part, smp, rating) ==
    LET is_last_part == part = n_parts - 1
        is_last_sample_in_part == smp = n_samples - 1
        is_last_sub_question == rating = n_questions - 1
    IN  IF caption_quality
        THEN is_last_part /\ is_last_sample_in_part /\ is_last_sub_question
        ELSE is_last_part /\ is_last_sample_in_part

\* the feedback view labels the button "Finish Quiz"
is_last_question ==
    IsLastQuestion(IsCaptionQuality, Len(part_keys), Len(sample.questions),
                   Len(questions_for_part), current_part_index, current_sample_index,
                   current_rating_question_index)

\* the units of the budget of disruptions a jump to quiz part target takes
QuizJumpCost(target) == IF target = Len(part_keys) - 1 THEN 2 ELSE 3

\* sidebar "Quiz Sections"
jump_to_part ==
    /\ page = "quiz"
    /\ Settled \/ QuizTimerGate
    /\ \E part_index \in 0..(Len(part_keys) - 1) :
          /\ current_part_index' = part_index
          /\ disruptions + QuizJumpCost(part_index) <= MaxDisruptions
          /\ disruptions' = disruptions + QuizJumpCost(part_index)
    /\ current_sample_index' = 0
    /\ current_rating_question_index' = 0
    /\ show_feedback' = FALSE
    /\ Jumped("jump_to_part")
    /\ UNCHANGED << page, participant, score, study_cursor,
                    comprehension_passed_video_ids, item_state, sink >>

(***************************************************************************)
(* Page quiz_results.                                                      *)
(***************************************************************************)
\* total_scorable_questions of the quiz_results page: the sub-questions of the
\* samples of a Caption Quality part, the samples of any other part
total_scorable_questions ==
    LET RECURSIVE SumOver(_, _)
        SumOver(f, i) == IF i = 0 THEN 0 ELSE f[i] + SumOver(f, i - 1)
        PartTotal(p_name) ==
            IF p_name \in CaptionQualityKeys
            THEN SumOver([ i \in 1..Len(QuizData[p_name]) |->
                             Len(QuizData[p_name][i].questions) ], Len(QuizData[p_name]))
            ELSE Len(QuizData[p_name])
    IN  SumOver([ i \in 1..Len(QuizPartKeys) |-> PartTotal(QuizPartKeys[i]) ],
                Len(QuizPartKeys))

\* Passed with > for >=
PassedAbove == score > passing_score

\* if st.session_state.score >= passing_score
Passed == score >= passing_score

\* the branch of quiz_results that is drawn: Status: Passed with the button
\* "Proceed to User Study", or Status: Failed with "Take Quiz Again"
ProceedOffered == page = "quiz_results" /\ Passed
RestartOffered == page = "quiz_results" /\ ~Passed

\* "Proceed to User Study", shown with Status: Passed
ProceedToUserStudy ==
    /\ ProceedOffered
    /\ page' = "user_study_main"
    /\ Ran("proceed_to_user_study")
    /\ UNCHANGED << participant, quiz_state, study_cursor,
                    comprehension_passed_video_ids, item_state, sink_state >>

\* on_click of "Take Quiz Again", shown with Status: Failed
restart_quiz ==
    /\ RestartOffered
    /\ disruptions + 2 <= MaxDisruptions
    /\ page' = "quiz"
    /\ current_part_index' = 0
    /\ current_sample_index' = 0
    /\ current_rating_question_index' = 0
    /\ show_feedback' = FALSE
    /\ score' = 0
    /\ disruptions' = disruptions + 2
    /\ last' = [ act |-> "restart_quiz", saved |-> <<>> ] /\ Running
    /\ history' = [ history EXCEPT !.restarts = @ + 1, !.correct_submissions = 0 ]
    /\ UNCHANGED << participant, study_cursor, comprehension_passed_video_ids,
                    item_state, sink >>

(***************************************************************************)
(* Page user_study_main, part 1: caption rating.                           *)
(***************************************************************************)
\* if video_idx >= len(all_videos): study_part = 2
Part1Finished ==
    /\ Part1Completed
    /\ study_part' = 2
    /\ Ran("part1_finished")
    /\ UNCHANGED << page, participant, quiz_state, current_video_index,
                    current_caption_index, current_comparison_index,
                    current_change_index, comprehension_passed_video_ids,
                    item_state, sink_state >>

Part1WatchTimer == Part1TimerGate /\ WatchTimer(Part1TimerKey(current_video), "part1_timer")

\* Part1InitialStep with every caption entered at step 5
Part1InitialStepAlwaysFive(caption_idx, watched) == 5

\* Part1InitialStep without the skip for a watched video
Part1InitialStepByCaption(caption_idx, watched) ==
    IF caption_idx > 0 THEN 5 ELSE 1

Part1InitialStep(caption_idx, watched) ==
    IF caption_idx > 0 THEN 5
    ELSE IF watched THEN 5 ELSE 1

\* the summary_typed flag of a video when a view state is created for a caption
Part1SummaryAtCreation(typed, sk, caption_idx, watched) ==
    IF caption_idx = 0
    THEN IF watched THEN typed \cup { sk } ELSE typed \ { sk }
    ELSE typed

Part1Render ==
    /\ Part1RenderPending
    /\ LET k == Part1ViewKey(current_caption)
           sk == Part1SummaryKey(current_video)
           watched == has_been_watched(current_video)
           fresh == k \notin DOMAIN view_state
           created ==
               IF fresh
               THEN Put(view_state, k,
                        [ step |-> Part1InitialStep(current_caption_index, watched),
                          interacted |-> NoInteraction(Part1QuestionIds),
                          comp_feedback |-> FALSE, comp_choice |-> None ])
               ELSE view_state
           typed ==
               IF fresh
               THEN Part1SummaryAtCreation(summary_typed, sk, current_caption_index, watched)
               ELSE summary_typed
       IN  /\ view_state' = created
           /\ summary_typed' =
                 IF current_caption_index = 0 /\ created[k].step >= 2
                 THEN typed \cup { sk } ELSE typed
    /\ Ran("part1_render")
    /\ UNCHANGED << page, participant, quiz_state, study_cursor,
                    comprehension_passed_video_ids, timer_finished, p3_radio,
                    sink_state >>

Part1Settled == Part1ShowsItem /\ Settled

Part1ProceedToSummary ==
    /\ Part1Settled /\ current_caption_index = 0
    /\ StepButton(Part1ViewKey(current_caption), 1, 2, "part1_proceed_to_summary")
Part1ProceedToQuestion ==
    /\ Part1Settled /\ current_caption_index = 0
    /\ StepButton(Part1ViewKey(current_caption), 2, 3, "part1_proceed_to_question")
Part1ComprehensionSubmit ==
    /\ Part1Settled /\ current_caption_index = 0
    /\ ComprehensionSubmit(Part1ViewKey(current_caption), "part1_comprehension_submit")
Part1ComprehensionProceed ==
    /\ Part1Settled /\ current_caption_index = 0
    /\ ComprehensionProceed(current_video, Part1ViewKey(current_caption), 5,
                            "part1_comprehension_proceed")
Part1ShowQuestions ==
    Part1Settled /\ StepButton(Part1ViewKey(current_caption), 5, 6, "part1_show_questions")

\* MarkInteracted without the offset 6 of the rating steps
MarkInteractedFromZero(v, question_index) ==
    IF ~v.interacted[question_index + 1]
    THEN [ v EXCEPT !.interacted[question_index + 1] = TRUE,
                    !.step = question_index + 1 ]
    ELSE v

\* the view state after the on_change callback of slider question_index (0-based)
MarkInteracted(v, question_index) ==
    IF ~v.interacted[question_index + 1]
    THEN [ v EXCEPT !.interacted[question_index + 1] = TRUE,
                    !.step = 6 + question_index + 1 ]
    ELSE v

\* slider question_index (0-based), drawn `if questions_to_show >= question_index + 1`,
\* is moved
SliderMoved(question_index) ==
    LET k == Part1ViewKey(current_caption)
    IN  /\ Part1Settled
        /\ view_state[k].step >= 6
        /\ questions_to_show(view_state[k]) >= question_index + 1
        /\ view_state' = Put(view_state, k, MarkInteracted(view_state[k], question_index))

\* a slider that is shown is moved
mark_interacted ==
    /\ \E question_index \in 0..(Len(Part1QuestionIds) - 1) : SliderMoved(question_index)
    /\ Ran("mark_interacted")
    /\ UNCHANGED << page, participant, quiz_state, study_cursor,
                    comprehension_passed_video_ids, timer_finished, summary_typed,
                    p3_radio, sink_state >>

\* Part1CursorAfter without `if all_saved`
Part1CursorAdvances(all_saved, video_idx, caption_idx) ==
    IF caption_idx + 1 >= Len(all_videos[video_idx + 1].captions)
    THEN << video_idx + 1, 0 >>
    ELSE << video_idx, caption_idx + 1 >>

\* << video index, caption index >> after "Submit Ratings"
Part1CursorAfter(all_saved, video_idx, caption_idx) ==
    IF all_saved
    THEN IF caption_idx + 1 >= Len(all_videos[video_idx + 1].captions)
         THEN << video_idx + 1, 0 >>
         ELSE << video_idx, caption_idx + 1 >>
    ELSE << video_idx, caption_idx >>

\* st.session_state.pop(view_state_key, None) of a submission that was saved
\* ViewAfterSubmit without st.session_state.pop(view_state_key, None)
ViewKeptAfterSubmit(views, k, all_saved) == views

ViewAfterSubmit(views, k, all_saved) == IF all_saved THEN Pop(views, k) ELSE views

Part1Rows ==
    [ q \in 1..Len(Part1QuestionIds) |->
        << "user_study_part1", current_caption.caption_id, q >> ]

\* "Submit Ratings", shown once questions_to_show > len(questions_to_ask)
Part1SubmitRatings ==
    /\ Part1Settled
    /\ LET k == Part1ViewKey(current_caption)
           v == view_state[k]
           all_interacted == \A q \in DOMAIN v.interacted : v.interacted[q]
       IN  /\ v.step >= 6
           /\ questions_to_show(v) > Len(Part1QuestionIds)
           /\ IF ~all_interacted
              THEN /\ UNCHANGED << current_video_index, current_caption_index,
                                   view_state, sink, disruptions >>
                   /\ Ran("part1_submit_ratings")
              ELSE \E run \in SaveEach(Part1Rows) :
                     LET all_saved == AllTrue(run.saved)
                         c == Part1CursorAfter(all_saved, current_video_index,
                                               current_caption_index)
                     IN  /\ current_video_index' = c[1]
                         /\ current_caption_index' = c[2]
                         /\ view_state' = ViewAfterSubmit(view_state, k, all_saved)
                         /\ sink' = run.snk /\ disruptions' = run.faults
                         /\ last' = [ act |-> "part1_submit_ratings", saved |-> run.saved ] /\ Running
                         /\ UNCHANGED history
    /\ UNCHANGED << page, participant, quiz_state, study_part,
                    current_comparison_index, current_change_index,
                    comprehension_passed_video_ids, timer_finished, summary_typed,
                    p3_radio >>

(***************************************************************************)
(* Page user_study_main, part 2: tone intensity change.                    *)
(***************************************************************************)
\* if change_idx >= len(all_changes): study_part = 3
Part2Finished ==
    /\ Part2Completed
    /\ study_part' = 3
    /\ Ran("part2_finished")
    /\ UNCHANGED << page, participant, quiz_state, current_video_index,
                    current_caption_index, current_comparison_index,
                    current_change_index, comprehension_passed_video_ids,
                    item_state, sink_state >>

Part2WatchTimer == Part2TimerGate /\ WatchTimer(Part2TimerKey(current_change), "part2_timer")

\* initial_step of parts 2 and 3
StudyInitialStep(watched) == IF watched THEN 5 ELSE 1

\* the summary_typed flag of an item of part 2 or 3 when its view state is created
SummaryAtCreation(typed, sk, watched) ==
    IF watched THEN typed \cup { sk } ELSE typed \ { sk }

Part2Render ==
    /\ Part2RenderPending
    /\ LET k == Part2ViewKey(current_change)
           sk == Part2SummaryKey(current_change)
           watched == has_been_watched(current_change)
           fresh == k \notin DOMAIN view_state
           created ==
               IF fresh
               THEN Put(view_state, k,
                        [ step |-> StudyInitialStep(watched), summary_typed |-> FALSE,
                          comp_feedback |-> FALSE, comp_choice |-> None ])
               ELSE view_state
           typed == IF fresh THEN SummaryAtCreation(summary_typed, sk, watched)
                    ELSE summary_typed
       IN  /\ view_state' = created
           /\ summary_typed' = IF created[k].step >= 2 THEN typed \cup { sk } ELSE typed
    /\ Ran("part2_render")
    /\ UNCHANGED << page, participant, quiz_state, study_cursor,
                    comprehension_passed_video_ids, timer_finished, p3_radio,
                    sink_state >>

Part2Settled == Part2ShowsItem /\ Settled

Part2ProceedToSummary ==
    Part2Settled /\ StepButton(Part2ViewKey(current_change), 1, 2, "part2_proceed_to_summary")
Part2ProceedToQuestion ==
    Part2Settled /\ StepButton(Part2ViewKey(current_change), 2, 3, "part2_proceed_to_question")
Part2ComprehensionSubmit ==
    /\ Part2Settled
    /\ ComprehensionSubmit(Part2ViewKey(current_change), "part2_comprehension_submit")
Part2ComprehensionProceed ==
    /\ Part2Settled
    /\ ComprehensionProceed(current_change, Part2ViewKey(current_change), 5,
                            "part2_comprehension_proceed")
Part2ShowQuestions ==
    Part2Settled /\ StepButton(Part2ViewKey(current_change), 5, 6, "part2_show_questions")

\* the two radios of the form: index=None, "Yes", "No"
YesNoInputs == { None, "Yes", "No" }

\* current_change_index after "Submit Answers"
Part2CursorAfter(success1, success2, change_idx) ==
    IF success1 /\ success2 THEN change_idx + 1 ELSE change_idx

Part2Rows ==
    [ q \in 1..2 |-> << "user_study_part2", current_change.change_id, q >> ]

\* form "Submit Answers" with the two radios holding choice1 and choice2
Part2SubmitOf(choice1, choice2) ==
    LET k == Part2ViewKey(current_change)
    IN  IF choice1 = None \/ choice2 = None
        THEN /\ UNCHANGED << current_change_index, view_state, sink, disruptions >>
             /\ Ran("part2_submit_answers")
        ELSE \E run \in SaveBoth(Part2Rows) :
               /\ current_change_index' =
                     Part2CursorAfter(run.saved[1], run.saved[2], current_change_index)
               /\ view_state' =
                     ViewAfterSubmit(view_state, k, run.saved[1] /\ run.saved[2])
               /\ sink' = run.snk /\ disruptions' = run.faults
               /\ last' = [ act |-> "part2_submit_answers", saved |-> run.saved ] /\ Running
               /\ UNCHANGED history

\* form "Submit Answers"
Part2SubmitAnswers ==
    /\ Part2Settled
    /\ view_state[Part2ViewKey(current_change)].step >= 6
    /\ \E choice1 \in YesNoInputs, choice2 \in YesNoInputs :
          Part2SubmitOf(choice1, choice2)
    /\ UNCHANGED << page, participant, quiz_state, study_part, current_video_index,
                    current_caption_index, current_comparison_index,
                    comprehension_passed_video_ids, timer_finished, summary_typed,
                    p3_radio >>

(***************************************************************************)
(* Page user_study_main, part 3: caption comparison.                       *)
(***************************************************************************)
\* if comp_idx >= len(all_comparisons): page = 'final_thank_you'
Part3Finished ==
    /\ Part3Completed
    /\ page' = "final_thank_you"
    /\ Ran("part3_finished")
    /\ UNCHANGED << participant, quiz_state, study_cursor,
                    comprehension_passed_video_ids, item_state, sink_state >>

Part3WatchTimer == Part3TimerGate /\ WatchTimer(Part3TimerKey(current_comp), "part3_timer")

Part3Render ==
    /\ Part3RenderPending
    /\ LET k == Part3ViewKey(current_comp)
           sk == Part3SummaryKey(current_comp)
           watched == has_been_watched(current_comp)
           fresh == k \notin DOMAIN view_state
           created ==
               IF fresh
               THEN Put(view_state, k,
                        [ step |-> StudyInitialStep(watched),
                          interacted |-> NoInteraction(Part3QuestionIds),
                          comp_feedback |-> FALSE, comp_choice |-> None ])
               ELSE view_state
           typed == IF fresh THEN SummaryAtCreation(summary_typed, sk, watched)
                    ELSE summary_typed
       IN  /\ view_state' = created
           /\ summary_typed' = IF created[k].step >= 2 THEN typed \cup { sk } ELSE typed
    /\ Ran("part3_render")
    /\ UNCHANGED << page, participant, quiz_state, study_cursor,
                    comprehension_passed_video_ids, timer_finished, p3_radio,
                    sink_state >>

Part3Settled == Part3ShowsItem /\ Settled

Part3ProceedToSummary ==
    Part3Settled /\ StepButton(Part3ViewKey(current_comp), 1, 2, "part3_proceed_to_summary")
Part3ProceedToQuestion ==
    Part3Settled /\ StepButton(Part3ViewKey(current_comp), 2, 3, "part3_proceed_to_question")
Part3ComprehensionSubmit ==
    /\ Part3Settled
    /\ ComprehensionSubmit(Part3ViewKey(current_comp), "part3_comprehension_submit")
Part3ComprehensionProceed ==
    /\ Part3Settled
    /\ ComprehensionProceed(current_comp, Part3ViewKey(current_comp), 5,
                            "part3_comprehension_proceed")
Part3ShowQuestions ==
    Part3Settled /\ StepButton(Part3ViewKey(current_comp), 5, 6, "part3_show_questions")

\* the view state after the on_change callback of radio question_index (0-based)
MarkP3Interacted(v, question_index) ==
    IF ~v.interacted[question_index + 1]
    THEN [ v EXCEPT !.interacted[question_index + 1] = TRUE ]
    ELSE v

\* radio question_index (0-based), drawn `if questions_to_show >= question_index + 1`,
\* is given a (new) value
RadioChosen(question_index) ==
    LET k == Part3ViewKey(current_comp)
    IN  /\ Part3Settled
        /\ view_state[k].step >= 6
        /\ questions_to_show(view_state[k]) >= question_index + 1
        /\ view_state' = Put(view_state, k, MarkP3Interacted(view_state[k], question_index))
        /\ p3_radio' = p3_radio \cup { question_index }

\* a radio that is shown is given a (new) value
mark_p3_interacted ==
    /\ \E question_index \in 0..(Len(Part3QuestionIds) - 1) : RadioChosen(question_index)
    /\ Ran("mark_p3_interacted")
    /\ UNCHANGED << page, participant, quiz_state, study_cursor,
                    comprehension_passed_video_ids, timer_finished, summary_typed,
                    sink_state >>

\* current_comparison_index after "Submit Comparison"
Part3CursorAfter(all_saved, comp_idx) == IF all_saved THEN comp_idx + 1 ELSE comp_idx

Part3Rows ==
    [ q \in 1..Len(Part3QuestionIds) |->
        << "user_study_part3", current_comp.comparison_id, q >> ]

\* "Submit Comparison", shown once questions_to_show > len(part3_questions)
Part3SubmitComparison ==
    /\ Part3Settled
    /\ LET k == Part3ViewKey(current_comp)
           v == view_state[k]
           unanswered == \E q \in 0..(Len(Part3QuestionIds) - 1) : q \notin p3_radio
       IN  /\ v.step >= 6
           /\ questions_to_show(v) > Len(Part3QuestionIds)
           /\ IF unanswered
              THEN /\ UNCHANGED << current_comparison_index, view_state, p3_radio,
                                   sink, disruptions >>
                   /\ Ran("part3_submit_comparison")
              ELSE \E run \in SaveEach(Part3Rows) :
                     LET all_saved == AllTrue(run.saved)
                     IN  /\ current_comparison_index' =
                               Part3CursorAfter(all_saved, current_comparison_index)
                         /\ view_state' = ViewAfterSubmit(view_state, k, all_saved)
                         /\ p3_radio' = IF all_saved THEN {} ELSE p3_radio
                         /\ sink' = run.snk /\ disruptions' = run.faults
                         /\ last' = [ act |-> "part3_submit_comparison",
                                      saved |-> run.saved ] /\ Running
                         /\ UNCHANGED history
    /\ UNCHANGED << page, participant, quiz_state, study_part, current_video_index,
                    current_caption_index, current_change_index,
                    comprehension_passed_video_ids, timer_finished, summary_typed >>

(***************************************************************************)
(* Sidebar of user_study_main.                                             *)
(***************************************************************************)
\* the units of the budget of disruptions a jump to study part target takes
JumpCost(target) == IF study_part = 3 \/ target = 3 THEN 2 ELSE 3

StudyTimerGate == Part1TimerGate \/ Part2TimerGate \/ Part3TimerGate

\* the radios of part 3 keep their value only while the same item stays drawn
RadioAfterJump(part, comparison_idx) ==
    IF study_part = 3 /\ part = 3 /\ comparison_idx = current_comparison_index
    THEN p3_radio ELSE {}

\* "Part 1: ...", "Part 2: ...", "Part 3: ..."
jump_to_study_part ==
    /\ page = "user_study_main"
    /\ Settled \/ StudyTimerGate
    /\ \E part_number \in 1..3 :
          /\ study_part' = part_number
          /\ disruptions + JumpCost(part_number) <= MaxDisruptions
          /\ disruptions' = disruptions + JumpCost(part_number)
          /\ p3_radio' = RadioAfterJump(part_number, 0)
    /\ current_video_index' = 0
    /\ current_caption_index' = 0
    /\ current_comparison_index' = 0
    /\ current_change_index' = 0
    /\ Jumped("jump_to_study_part")
    /\ UNCHANGED << page, participant, quiz_state, comprehension_passed_video_ids,
                    view_state, timer_finished, summary_typed, sink >>

\* JumpToStudyItem without the reset of the indices of the other parts
JumpToStudyItemKeepsOthers(part_number, item_index) ==
    << IF part_number = 1 THEN item_index ELSE current_video_index,
       0,
       IF part_number = 2 THEN item_index ELSE current_change_index,
       IF part_number = 3 THEN item_index ELSE current_comparison_index >>

\* the study indices after jump_to_study_item(part_number, item_index):
\* << video, caption, change, comparison >>
JumpToStudyItem(part_number, item_index) ==
    << IF part_number = 1 THEN item_index ELSE 0,
       0,
       IF part_number = 2 THEN item_index ELSE 0,
       IF part_number = 3 THEN item_index ELSE 0 >>

StudyPartLength(part_number) ==
    CASE part_number = 1 -> Len(all_videos)
      [] part_number = 2 -> Len(all_changes)
      [] part_number = 3 -> Len(all_comparisons)

\* "Jump to Item": the buttons of the items of the current part
jump_to_study_item ==
    /\ page = "user_study_main"
    /\ Settled \/ StudyTimerGate
    /\ disruptions + JumpCost(study_part) <= MaxDisruptions
    /\ \E item_index \in 0..(StudyPartLength(study_part) - 1) :
          LET c == JumpToStudyItem(study_part, item_index)
          IN  /\ current_video_index' = c[1]
              /\ current_caption_index' = c[2]
              /\ current_change_index' = c[3]
              /\ current_comparison_index' = c[4]
              /\ p3_radio' = RadioAfterJump(study_part, c[4])
    /\ study_part' = study_part
    /\ disruptions' = disruptions + JumpCost(study_part)
    /\ Jumped("jump_to_study_item")
    /\ UNCHANGED << page, participant, quiz_state, comprehension_passed_video_ids,
                    view_state, timer_finished, summary_typed, sink >>

(***************************************************************************)
(* The session.                                                            *)
(***************************************************************************)
Next ==
    \/ DebugSkip \/ DemographicsNext
    \/ IntroVideoNext \/ WhatIsTonePrev \/ WhatIsToneNext
    \/ FactualInfoPrev \/ StartQuiz
    \/ QuizFinished \/ QuizWatchTimer \/ QuizRender
    \/ QuizProceedToSummary \/ QuizProceedToQuestion
    \/ QuizComprehensionSubmit \/ QuizComprehensionProceed \/ QuizShowQuestions
    \/ QuizSubmitAnswer \/ handle_next_quiz_question \/ jump_to_part
    \/ ProceedToUserStudy \/ restart_quiz
    \/ Part1Finished \/ Part1WatchTimer \/ Part1Render
    \/ Part1ProceedToSummary \/ Part1ProceedToQuestion
    \/ Part1ComprehensionSubmit \/ Part1ComprehensionProceed \/ Part1ShowQuestions
    \/ mark_interacted \/ Part1SubmitRatings
    \/ Part2Finished \/ Part2WatchTimer \/ Part2Render
    \/ Part2ProceedToSummary \/ Part2ProceedToQuestion
    \/ Part2ComprehensionSubmit \/ Part2ComprehensionProceed \/ Part2ShowQuestions
    \/ Part2SubmitAnswers
    \/ Part3Finished \/ Part3WatchTimer \/ Part3Render
    \/ Part3ProceedToSummary \/ Part3ProceedToQuestion
    \/ Part3ComprehensionSubmit \/ Part3ComprehensionProceed \/ Part3ShowQuestions
    \/ mark_p3_interacted \/ Part3SubmitComparison
    \/ jump_to_study_part \/ jump_to_study_item

Spec == Init /\ [][Next]_vars

(***************************************************************************)
(* The session of a participant who goes forward: no "Prev", no sidebar    *)
(* jump, no DEBUG skip, and who keeps acting as long as a control is       *)
(* offered.  time.sleep of a watch timer returns; the failures of the sink *)
(* and the quiz restarts are finitely many (MaxDisruptions).               *)
(***************************************************************************)
\* the forward controls that send nothing to the sink, and the watch timers.
\* Part 2 is entered here only through part 1, which has played the video of
\* chg1 (vidD): the item starts at its questions (has_been_watched), and the
\* timer, summary and comprehension steps of part 2 are never drawn.
ForwardStep ==
    \/ DemographicsNext
    \/ IntroVideoNext \/ WhatIsToneNext \/ StartQuiz
    \/ QuizFinished \/ QuizWatchTimer \/ QuizRender
    \/ QuizProceedToSummary \/ QuizProceedToQuestion
    \/ QuizComprehensionSubmit \/ QuizComprehensionProceed \/ QuizShowQuestions
    \/ handle_next_quiz_question
    \/ ProceedToUserStudy \/ restart_quiz
    \/ Part1Finished \/ Part1WatchTimer \/ Part1Render
    \/ Part1ProceedToSummary \/ Part1ProceedToQuestion
    \/ Part1ComprehensionSubmit \/ Part1ComprehensionProceed \/ Part1ShowQuestions
    \/ mark_interacted
    \/ Part2Finished \/ Part2Render \/ Part2ShowQuestions
    \/ Part3Finished \/ Part3WatchTimer \/ Part3Render
    \/ Part3ProceedToSummary \/ Part3ProceedToQuestion
    \/ Part3ComprehensionSubmit \/ Part3ComprehensionProceed \/ Part3ShowQuestions
    \/ mark_p3_interacted

\* the forms that send answers to the sink
SubmitStep ==
    \/ QuizSubmitAnswer \/ Part1SubmitRatings
    \/ Part2SubmitAnswers \/ Part3SubmitComparison

ForwardNext == ForwardStep \/ SubmitStep

\* a form that sends answers is drawn with its submit button (the conditions
\* under which the four submit handlers can run)
SubmitOffered ==
    \/ /\ QuizSettled /\ all_data # NoData
       /\ view_state[QuizViewKey(sample)].step >= 6 /\ ~show_feedback
    \/ /\ Part1Settled /\ all_data # NoData
       /\ view_state[Part1ViewKey(current_caption)].step >= 6
       /\ questions_to_show(view_state[Part1ViewKey(current_caption)])
             > Len(Part1QuestionIds)
    \/ /\ Part2Settled /\ all_data # NoData
       /\ view_state[Part2ViewKey(current_change)].step >= 6
    \/ /\ Part3Settled /\ all_data # NoData
       /\ view_state[Part3ViewKey(current_comp)].step >= 6
       /\ questions_to_show(view_state[Part3ViewKey(current_comp)])
             > Len(Part3QuestionIds)

\* a run of one of the four submit handlers
Submitted ==
    last'.act \in { "quiz_submit_answer", "part1_submit_ratings",
                    "part2_submit_answers", "part3_submit_comparison" }

\* The participant keeps using the forward controls and every time.sleep of a
\* watch timer returns: weak fairness of ForwardStep.  A submit button that
\* stays offered is clicked again and again: weak fairness of SubmitStep,
\* written with the condition under which it is enabled (SubmitOffered) and
\* the label of its runs.
ForwardFairness ==
    /\ WF_vars(ForwardStep)
    /\ []<>(~SubmitOffered) \/ []<><<Submitted>>_vars

ForwardSpec == Init /\ [][ForwardNext]_vars /\ ForwardFairness

(***************************************************************************)
(* The start of a session over any file system and definitions document:   *)
(* the first script run initialises the session state and loads the        *)
(* content; later runs stop at once when the content was not loaded.       *)
(***************************************************************************)
\* the file systems with at most MaxMissing of the files absent
FileSystems ==
    { AllFiles \ missing :
        missing \in { m \in SUBSET AllFiles : Cardinality(m) <= MaxMissing } }

\* 'page' not in st.session_state
NoSession == page = None

\* before the first script run of the session
LoadInit ==
    /\ files \in FileSystems
    /\ definitions \in DefinitionDocuments
    /\ page = None
    /\ all_data = NoData
    /\ email = None /\ age = 0 /\ gender = None
    /\ current_part_index = 0 /\ current_sample_index = 0
    /\ show_feedback = FALSE
    /\ current_rating_question_index = 0
    /\ score = 0
    /\ study_part = 1
    /\ current_video_index = 0 /\ current_caption_index = 0
    /\ current_comparison_index = 0 /\ current_change_index = 0
    /\ comprehension_passed_video_ids = {}
    /\ view_state = <<>>
    /\ timer_finished = {}
    /\ summary_typed = {}
    /\ p3_radio = {}
    /\ sink = EmptySink
    /\ disruptions = 0
    /\ last = [ act |-> "none", saved |-> <<>> ]
    /\ history = [ restarts |-> 0, jumps |-> 0, correct_submissions |-> 0 ]

\* `if 'page' not in st.session_state:` of the first script run
session_init ==
    /\ NoSession
    /\ page' = "demographics"
    /\ current_part_index' = 0 /\ current_sample_index' = 0
    /\ show_feedback' = FALSE
    /\ current_rating_question_index' = 0
    /\ score' = 0
    /\ study_part' = 1
    /\ current_video_index' = 0 /\ current_caption_index' = 0
    /\ current_comparison_index' = 0 /\ current_change_index' = 0
    /\ comprehension_passed_video_ids' = {}
    /\ all_data' = load_data(files, definitions)
    /\ last' = [ act |-> "init", saved |-> <<>> ]
    /\ UNCHANGED << participant, item_state, sink_state, files, definitions, history >>

\* ALL_DEFINITIONS.get(term)
definition_of(term) == Get(all_data.all_definitions, term, None)

LoadNext == session_init \/ DebugSkip \/ DemographicsNext

LoadSpec == LoadInit /\ [][LoadNext]_vars

(***************************************************************************)
(* Properties.                                                             *)
(***************************************************************************)
StudySubmits ==
    { "part1_submit_ratings", "part2_submit_answers", "part3_submit_comparison" }

\* the results of the save_response calls of a submission
Failed(saved) == \E i \in 1..Len(saved) : ~saved[i]
Succeeded(saved) == saved # <<>> /\ AllTrue(saved)

\* the rows a submission of the current study item sends to the sink
StudyRows ==
    CASE study_part = 1 -> Part1Rows
      [] study_part = 2 -> Part2Rows
      [] study_part = 3 -> Part3Rows

\* the study cursor one item after the current item
NextItem ==
    CASE study_part = 1 ->
           IF current_caption_index + 1 < Len(current_video.captions)
           THEN << 1, current_video_index, current_caption_index + 1,
                   current_comparison_index, current_change_index >>
           ELSE << 1, current_video_index + 1, 0,
                   current_comparison_index, current_change_index >>
      [] study_part = 2 ->
           << 2, current_video_index, current_caption_index,
              current_comparison_index, current_change_index + 1 >>
      [] study_part = 3 ->
           << 3, current_video_index, current_caption_index,
              current_comparison_index + 1, current_change_index >>

\* C1: a submission moves the item cursor only after save_response returned
\* success for every answer of the submission.  A study submission that
\* changes the study cursor has a success for each of its rows, and each row
\* is in the sink once more than before; "Next Question" / "Finish Quiz" moves
\* the quiz cursor only in a run that directly follows a quiz submission whose
\* save_response returned success, with the answer's row in the sink.
CursorMovesOnlyAfterSave ==
    [][ /\ (last'.act \in StudySubmits /\ study_cursor' # study_cursor) =>
              /\ Succeeded(last'.saved)
              /\ Len(last'.saved) = Len(StudyRows)
              /\ \A i \in 1..Len(StudyRows) :
                    RecordedIn(sink', StudyRows[i]) = RecordedIn(sink, StudyRows[i]) + 1
        /\ (last'.act = "handle_next_quiz_question" /\ quiz_cursor' # quiz_cursor) =>
              /\ last.act = "quiz_submit_answer"
              /\ last.saved = << TRUE >>
              /\ RecordedIn(sink, QuizRow) >= 1
        /\ (last'.act = "quiz_submit_answer") => quiz_cursor' = quiz_cursor
      ]_vars

\* C1: the first caption of a video was submitted and saved, the cursor is on
\* the second caption
CursorMovedAfterSave ==
    /\ last.act = "part1_submit_ratings"
    /\ Succeeded(last.saved)
    /\ page = "user_study_main" /\ study_part = 1
    /\ current_video_index = 0 /\ current_caption_index = 1

\* C2: when a save_response call of a valid study submission fails, the study
\* cursor and the view states (with the step of the item) are unchanged; the
\* retry that directly follows and whose save_response calls all succeed moves
\* the cursor to the next item: the next caption, the next video with caption
\* index 0 after the last caption, the next change, the next comparison.
FailedStudySubmissionKeepsItem ==
    [][ /\ (last'.act \in StudySubmits /\ Failed(last'.saved)) =>
              /\ study_cursor' = study_cursor
              /\ view_state' = view_state
        /\ ( /\ last.act \in StudySubmits /\ Failed(last.saved)
             /\ last'.act = last.act /\ Succeeded(last'.saved) ) =>
              study_cursor' = NextItem
      ]_vars

\* C2: the submission of caption capA1 failed after its first row was saved,
\* and the retry saved all rows and moved the cursor to the second caption
StudyRetryAdvanced ==
    /\ last.act = "part1_submit_ratings"
    /\ Succeeded(last.saved)
    /\ history.jumps = 0
    /\ current_video_index = 0 /\ current_caption_index = 1
    /\ RecordedIn(sink, << "user_study_part1", "capA1", 1 >>) = 2
    /\ RecordedIn(sink, << "user_study_part1", "capA1", Len(Part1QuestionIds) >>) = 1

\* C3: when save_response fails for a valid quiz answer, the quiz cursor, the
\* view states (with the step of the item), show_feedback and the score have
\* the values they had before the submission.
FailedQuizSubmissionKeepsState ==
    [][ (last'.act = "quiz_submit_answer" /\ Failed(last'.saved)) =>
            /\ quiz_state' = quiz_state
            /\ view_state' = view_state
      ]_vars

\* C4: the score changes only by a quiz submission on page quiz, which adds
\* exactly 1 and whose answer was evaluated as correct, or by restart_quiz,
\* which sets it to 0; no other run changes it.
ScoreChangesOnlyInQuiz ==
    [][ score' # score =>
            \/ /\ page = "quiz" /\ last'.act = "quiz_submit_answer"
               /\ score' = score + 1
               /\ last'.saved # <<>>
               /\ history'.correct_submissions = history.correct_submissions + 1
            \/ /\ last'.act = "restart_quiz"
               /\ score' = 0
      ]_vars

\* C4: a correct answer has just raised the score to 2
ScoreRaised ==
    /\ last.act = "quiz_submit_answer"
    /\ last.saved = << TRUE >>
    /\ score = 2 /\ history.correct_submissions = 2

\* C5: in every reachable state the score is the number of validated quiz
\* submissions whose choice equalled the answer key since the session started
\* or the quiz was last restarted.
ScoreIsCorrectCount == score = history.correct_submissions

\* C5: five answers were submitted, three of them correct
ThreeOfFiveCorrect ==
    /\ page = "quiz" /\ show_feedback
    /\ current_part_index = 2 /\ current_rating_question_index = 1
    /\ Len(sink.sheet) = 5
    /\ score = 3

\* C6: on quiz_results the Passed branch with "Proceed to User Study" is drawn
\* exactly when score >= 5 and the Failed branch with "Take Quiz Again" exactly
\* when score < 5, never both; only the Passed branch leads to user_study_main.
PassExactlyFromFive ==
    page = "quiz_results" =>
        /\ ProceedOffered <=> score >= 5
        /\ RestartOffered <=> score < 5
        /\ ~(ProceedOffered /\ RestartOffered)
        /\ (ENABLED ProceedToUserStudy) <=> score >= 5

\* C6: the quiz ended with a score of exactly 5
ResultsAtFive == page = "quiz_results" /\ score = 5 /\ ProceedOffered

\* C7: the page becomes user_study_main only from quiz_results with a score
\* of at least 5.
StudyOnlyAfterPass ==
    [][ (page' = "user_study_main" /\ page # "user_study_main") =>
            (page = "quiz_results" /\ score >= 5)
      ]_vars

\* position of a page in the wizard's order
PageIndex(p) == CHOOSE i \in 1..Len(Pages) : Pages[i] = p

\* C8 as stated: the page only moves one step forward in the order of Pages,
\* or back from quiz_results to quiz.
PagesLinear ==
    [][ page' # page =>
            \/ PageIndex(page') = PageIndex(page) + 1
            \/ page = "quiz_results" /\ page' = "quiz"
      ]_vars

\* C8: the page moves one step forward in the order of Pages, or back from
\* quiz_results to quiz by restart_quiz, or back by the Prev buttons from
\* what_is_tone to intro_video and from factual_info to what_is_tone, or from
\* demographics to user_study_main by the DEBUG skip button; nothing else.
PageMoves ==
    [][ page' # page =>
            \/ PageIndex(page') = PageIndex(page) + 1
            \/ page = "quiz_results" /\ page' = "quiz" /\ last'.act = "restart_quiz"
            \/ page = "what_is_tone" /\ page' = "intro_video"
                 /\ last'.act = "what_is_tone_prev"
            \/ page = "factual_info" /\ page' = "what_is_tone"
                 /\ last'.act = "factual_info_prev"
            \/ page = "demographics" /\ page' = "user_study_main"
                 /\ last'.act = "debug_skip"
      ]_vars

\* C8: Prev was clicked on what_is_tone
WentBackToIntro == page = "intro_video" /\ last.act = "what_is_tone_prev"

\* the items: the key of the view state and the first row of a submission
QuizItems ==
    { [ key |-> QuizViewKey(s), row |-> << "quiz", s.sample_id, 1 >> ] :
        s \in UNION { Range(QuizData[p]) : p \in Range(QuizPartKeys) } }
StudyItems ==
    { [ key |-> Part1ViewKey(c), row |-> << "user_study_part1", c.caption_id, 1 >> ] :
        c \in UNION { Range(v.captions) : v \in Range(all_videos) } }
    \cup { [ key |-> Part2ViewKey(c), row |-> << "user_study_part2", c.change_id, 1 >> ] :
             c \in Range(all_changes) }
    \cup { [ key |-> Part3ViewKey(c), row |-> << "user_study_part3", c.comparison_id, 1 >> ] :
             c \in Range(all_comparisons) }

\* the step of every view state that stays in the session does not decrease
StepsKept ==
    \A k \in DOMAIN view_state \cap DOMAIN view_state' :
        view_state'[k].step >= view_state[k].step

\* an item that was submitted before (at a step >= 6) gets a new view state at
\* a lower step
ShownAgainLower(item) ==
    /\ item.key \notin DOMAIN view_state
    /\ item.key \in DOMAIN view_state'
    /\ view_state'[item.key].step < 6
    /\ RecordedIn(sink, item.row) >= 1

\* C9 as stated: the step of a view state never decreases while the view state
\* exists, and an item is shown again at a lower step only after a quiz
\* restart.
StepsMonotoneButRestart ==
    [][ /\ StepsKept
        /\ \A item \in QuizItems : ShownAgainLower(item) => history.restarts > 0
        /\ \A item \in StudyItems : ~ShownAgainLower(item)
      ]_vars

\* C9: the step of a view state never decreases while the view state exists;
\* an item is shown again at a lower step only with a new view state, created
\* by a rendering run after its view state was discarded, and only after a
\* quiz restart or a sidebar jump.
StepsMonotoneButRevisit ==
    [][ /\ StepsKept
        /\ \A item \in QuizItems \cup StudyItems :
              ShownAgainLower(item) =>
                 /\ history.restarts > 0 \/ history.jumps > 0
                 /\ last'.act \in { "quiz_render", "part1_render", "part2_render",
                                    "part3_render" }
      ]_vars

\* C9: after a sidebar jump back to the first quiz part, its first sample,
\* answered before, has a new view state at step 1
RevisitedAtLowerStep ==
    /\ last.act = "quiz_render"
    /\ history.jumps > 0 /\ history.restarts = 0
    /\ RecordedIn(sink, << "quiz", "ti1", 1 >>) >= 1
    /\ QuizViewKey(QuizData["Part 1: Tone Identification"][1]) \in DOMAIN view_state
    /\ view_state[QuizViewKey(QuizData["Part 1: Tone Identification"][1])].step = 1

\* C10: comprehension_passed_video_ids starts empty, and an id that is in it
\* is in it in every later state.
WatchedSetAppendOnly ==
    /\ comprehension_passed_video_ids = {}
    /\ [][ comprehension_passed_video_ids \subseteq comprehension_passed_video_ids' ]_vars

\* C10: two ids were added, and a sidebar jump of the quiz followed
WatchedKeptAcrossJump ==
    /\ last.act = "jump_to_part"
    /\ Cardinality(comprehension_passed_video_ids) >= 2

\* C11: an item whose media id is in comprehension_passed_video_ids is shown
\* at step >= 5: whenever the item under the cursor of the quiz or of a study
\* part has a view state and its video_id is in the set, the step of the view
\* state is at least 5.
WatchedItemShownFromFive ==
    /\ ( /\ QuizShowsSample /\ has_been_watched(sample)
         /\ QuizViewKey(sample) \in DOMAIN view_state )
          => view_state[QuizViewKey(sample)].step >= 5
    /\ ( /\ Part1ShowsItem /\ has_been_watched(current_video)
         /\ Part1ViewKey(current_caption) \in DOMAIN view_state )
          => view_state[Part1ViewKey(current_caption)].step >= 5
    /\ ( /\ Part2ShowsItem /\ has_been_watched(current_change)
         /\ Part2ViewKey(current_change) \in DOMAIN view_state )
          => view_state[Part2ViewKey(current_change)].step >= 5
    /\ ( /\ Part3ShowsItem /\ has_been_watched(current_comp)
         /\ Part3ViewKey(current_comp) \in DOMAIN view_state )
          => view_state[Part3ViewKey(current_comp)].step >= 5

\* the items behind a watch gate, with the key of their view state and the key
\* of their timer flag: the quiz samples but the first sample of the Tone
\* Controllability part, and the study items
QuizSamples == UNION { Range(QuizData[p]) : p \in Range(QuizPartKeys) }
GatedItems ==
    { [ video_id |-> s.video_id, view |-> QuizViewKey(s), timer |-> QuizTimerKey(s) ] :
        s \in QuizSamples \ { QuizData["Part 2: Tone Controllability Evaluation"][1] } }
    \cup UNION { { [ video_id |-> v.video_id, view |-> Part1ViewKey(c),
                     timer |-> Part1TimerKey(v) ] : c \in Range(v.captions) } :
                 v \in Range(all_videos) }
    \cup { [ video_id |-> c.video_id, view |-> Part2ViewKey(c), timer |-> Part2TimerKey(c) ] :
             c \in Range(all_changes) }
    \cup { [ video_id |-> c.video_id, view |-> Part3ViewKey(c), timer |-> Part3TimerKey(c) ] :
             c \in Range(all_comparisons) }

\* C12: apart from the first sample of the Tone Controllability part, the view
\* state of an item exists only in states in which the timer flag of the item
\* is set or the video_id of the item is in comprehension_passed_video_ids.
ViewStateOnlyPastGate ==
    \A item \in GatedItems :
        item.view \in DOMAIN view_state =>
            \/ item.timer \in timer_finished
            \/ item.video_id \in comprehension_passed_video_ids

\* C12: the first caption of video vidA has a view state in part 1 although
\* the timer of the video never ran there: vidA was added to the set in the quiz
GateOpenedByWatchedSet ==
    /\ page = "user_study_main" /\ study_part = 1
    /\ Part1ViewKey(Part1Ratings[1].captions[1]) \in DOMAIN view_state
    /\ Part1TimerKey(Part1Ratings[1]) \notin timer_finished
    /\ "vidA" \in comprehension_passed_video_ids

\* what a rejected submission leaves alone: the sink (save_response is not
\* called), the cursors, the view states with their step and comprehension
\* result, the score, show_feedback and comprehension_passed_video_ids
NothingSubmitted ==
    /\ last'.saved = <<>>
    /\ sink' = sink
    /\ quiz_state' = quiz_state
    /\ study_cursor' = study_cursor
    /\ view_state' = view_state
    /\ comprehension_passed_video_ids' = comprehension_passed_video_ids

\* C13: for a multi-select quiz question, "Submit Answer" with a number of
\* ticked options other than 2 sends nothing to the sink and leaves the
\* cursor, the step, the score and show_feedback unchanged; with exactly 2
\* ticked options the answer is evaluated (the score is raised exactly when
\* the two options are the answer key) and save_response is called for its
\* row, which is in the sink once more when the call succeeded.
MultiSelectNeedsTwo ==
    [][ (QuizSubmitAnswer /\ question_data.question_type = "multi") =>
            \A choice \in SUBSET Range(question_data.options) :
                QuizSubmitOf(choice) =>
                    IF Cardinality(choice) = 2
                    THEN /\ Len(last'.saved) = 1
                         /\ score' = IF choice = question_data.correct_answer
                                     THEN score + 1 ELSE score
                         /\ RecordedIn(sink', QuizRow) =
                               RecordedIn(sink, QuizRow) + (IF last'.saved[1] THEN 1 ELSE 0)
                    ELSE NothingSubmitted
      ]_vars

\* C13: the multi-select question of sample ti2 was answered with two options
\* that are not the answer key, after a correct answer to ti1: the answer was
\* saved and the feedback is shown, the score is still 1
TwoWrongOptionsAccepted ==
    /\ page = "quiz" /\ current_part_index = 0 /\ current_sample_index = 1
    /\ last.act = "quiz_submit_answer" /\ last.saved = << TRUE >>
    /\ show_feedback
    /\ RecordedIn(sink, << "quiz", "ti2", 1 >>) = 1
    /\ score = 1 /\ history.correct_submissions = 1

\* C14: a submission with a required choice missing changes nothing: the quiz
\* answer form with no option, the comprehension form with no option, the form
\* of part 2 with one of its two radios empty, and "Submit Comparison" of part 3
\* with a radio that holds no value.
MissingChoiceRejected ==
    [][ /\ QuizSubmitAnswer =>
              \A choice \in ChoiceInputs(question_data) :
                  (NoChoice(question_data, choice) /\ QuizSubmitOf(choice))
                      => NothingSubmitted
        /\ QuizComprehensionSubmit =>
              ( ComprehensionSubmitOf(QuizViewKey(sample),
                                      "quiz_comprehension_submit", None)
                  => NothingSubmitted )
        /\ Part1ComprehensionSubmit =>
              ( ComprehensionSubmitOf(Part1ViewKey(current_caption),
                                      "part1_comprehension_submit", None)
                  => NothingSubmitted )
        /\ Part2ComprehensionSubmit =>
              ( ComprehensionSubmitOf(Part2ViewKey(current_change),
                                      "part2_comprehension_submit", None)
                  => NothingSubmitted )
        /\ Part3ComprehensionSubmit =>
              ( ComprehensionSubmitOf(Part3ViewKey(current_comp),
                                      "part3_comprehension_submit", None)
                  => NothingSubmitted )
        /\ Part2SubmitAnswers =>
              \A choice1 \in YesNoInputs, choice2 \in YesNoInputs :
                  ((choice1 = None \/ choice2 = None) /\ Part2SubmitOf(choice1, choice2))
                      => NothingSubmitted
        /\ ( /\ Part3SubmitComparison
             /\ \E q \in 0..(Len(Part3QuestionIds) - 1) : q \notin p3_radio )
              => NothingSubmitted
      ]_vars

\* C14: "Submit Comparison" was clicked in part 3 after the participant had
\* answered the four questions, left the item by the sidebar and come back:
\* the radios are empty, nothing was saved and the item is still shown
EmptyRadiosRejected ==
    /\ last.act = "part3_submit_comparison" /\ last.saved = <<>>
    /\ page = "user_study_main" /\ study_part = 3 /\ current_comparison_index = 0
    /\ p3_radio = {}
    /\ num_interacted(view_state[Part3ViewKey(Part3Comparisons[1])]) = Len(Part3QuestionIds)
    /\ RecordedIn(sink, << "user_study_part3", "cmp1", 1 >>) = 0

\* the texts of EmailInputs that have the form of an address: a local part,
\* "@", a domain, "." and a top-level domain of at least two letters
AddressInputs == { "a@b.com" }

\* C15: "Next" on the demographics page sets the page to intro_video only if
\* e-mail, age and gender are all given and the e-mail has the form of an
\* address, and then stores the three fields; otherwise the page stays
\* demographics and the participant fields of the session are unchanged.
NextNeedsValidDemographics ==
    [][ DemographicsNext =>
            \A e \in EmailInputs, a \in AgeInputs, g \in GenderInputs :
                DemographicsNextOf(e, a, g) =>
                    IF e \in AddressInputs /\ a # 0 /\ g # None
                    THEN page' = "intro_video" /\ participant' = << e, a, g >>
                    ELSE page' = "demographics" /\ participant' = participant
      ]_vars

\* C15: "Next" was clicked with a field missing or an e-mail that is not an
\* address: the page is still demographics and no field is stored
DemographicsRejected ==
    /\ last.act = "demographics_next"
    /\ page = "demographics"
    /\ participant = << None, 0, None >>

\* the three participant fields are in the session
ParticipantSet == email # None /\ age # 0 /\ gender # None

\* C16: in every state in which the page is not demographics, email, age and
\* gender are set; and once the three are set, no step changes any of them.
ParticipantSetOnceAndKept ==
    /\ [](page # "demographics" => ParticipantSet)
    /\ [][ ParticipantSet => participant' = participant ]_vars

\* C16: the participant who entered the fields on the demographics page has
\* reached the last study part with the fields as entered
ParticipantKeptToPart3 ==
    /\ page = "user_study_main" /\ study_part = 3
    /\ participant = << "a@b.com", 25, "Other / Prefer not to say" >>

\* the page is quiz and the part cursor is past the last quiz part
PastLastQuizPart == page = "quiz" /\ current_part_index >= Len(QuizPartKeys)

\* C17: in a state with page quiz and the part cursor past the last quiz part
\* the run that sets the page to quiz_results can be taken and is the only
\* step there is, a run without a user action; and the page becomes
\* quiz_results only by a step from such a state.
ResultsFollowLastPart ==
    /\ [](PastLastQuizPart => ENABLED QuizFinished)
    /\ [][ /\ PastLastQuizPart =>
                (page' = "quiz_results" /\ last'.act = "quiz_finished")
           /\ (page' = "quiz_results" /\ page # "quiz_results") => PastLastQuizPart
         ]_vars

\* C17: "Finish Quiz" moved the part cursor past the last part and the next
\* run has set the page to quiz_results
ResultsReached ==
    /\ page = "quiz_results" /\ last.act = "quiz_finished"
    /\ current_part_index = Len(QuizPartKeys)
    /\ history.jumps = 0 /\ history.restarts = 0

\* C18: restart_quiz sets the page to quiz, the score to 0 and the three
\* indices of the quiz cursor to 0, and after it no quiz sample has a view
\* state.
RestartResetsQuiz ==
    [][ last'.act = "restart_quiz" =>
            /\ page' = "quiz"
            /\ score' = 0
            /\ quiz_cursor' = << 0, 0, 0 >>
            /\ \A s \in QuizSamples : QuizViewKey(s) \notin DOMAIN view_state'
      ]_vars

\* C19: the cursor indices are within the content or equal to the length of
\* their part.  The part index is between 0 and the number of quiz parts;
\* while it is on a part, the sample index is on a sample of the part and, in
\* a Caption Quality part, the sub-question index is on a question of the
\* sample; the video, change and comparison indices are between 0 and the
\* length of their part, and while the video index is on a video, the caption
\* index is on a caption of the video.
CursorsInBounds ==
    /\ current_part_index \in 0..Len(QuizPartKeys)
    /\ current_part_index < Len(QuizPartKeys) =>
          LET key == QuizPartKeys[current_part_index + 1]
          IN  /\ current_sample_index \in 0..(Len(QuizData[key]) - 1)
              /\ key \in CaptionQualityKeys =>
                    current_rating_question_index \in
                        0..(Len(QuizData[key][current_sample_index + 1].questions) - 1)
    /\ current_video_index \in 0..Len(Part1Ratings)
    /\ current_change_index \in 0..Len(Part2IntensityChange)
    /\ current_comparison_index \in 0..Len(Part3Comparisons)
    /\ current_video_index < Len(Part1Ratings) =>
          current_caption_index \in
              0..(Len(Part1Ratings[current_video_index + 1].captions) - 1)

\* C19: the quiz was finished and the last caption of part 1 was submitted:
\* the part index and the video index are equal to the length of their part
IndicesAtPartLength ==
    /\ page = "user_study_main" /\ study_part = 1
    /\ current_part_index = Len(QuizPartKeys)
    /\ current_video_index = Len(Part1Ratings)
    /\ current_caption_index = 0

\* C20: every answer of a validated submission is in the sink exactly once
\* when the cursor moves past the item.  In a session without sidebar jump and
\* without quiz restart every item is passed once: when a study submission
\* moves the study cursor, each row of the item is in the sink exactly once,
\* and when "Next Question" / "Finish Quiz" is clicked, the row of the answer
\* is in the sink exactly once.
AnswersSentExactlyOnce ==
    [][ (history.jumps = 0 /\ history.restarts = 0) =>
            /\ (last'.act \in StudySubmits /\ study_cursor' # study_cursor) =>
                  \A i \in 1..Len(StudyRows) : RecordedIn(sink', StudyRows[i]) = 1
            /\ (last'.act = "handle_next_quiz_question") =>
                  RecordedIn(sink, QuizRow) = 1
      ]_vars

\* the view states of the items with a rating step (study parts 1 and 3)
RatingViews(views) == { k \in DOMAIN views : "interacted" \in DOMAIN views[k] }

\* questions 0..k-1 of a view state have been interacted with
FirstInteracted(v, k) == \A j \in 1..k : v.interacted[j]

\* C21: in the rating step of study parts 1 and 3 the questions are revealed
\* in order.  The slider (part 1) or radio (part 3) of question k can be used
\* only in states where questions 0..k-1 of the item have all been interacted
\* with; the submit control is clicked only in states where every question of
\* the item has been interacted with; and as long as a view state exists, a
\* question that has been interacted with stays so.
QuestionsRevealedInOrder ==
    /\ [](/\ \A q \in 0..(Len(Part1QuestionIds) - 1) :
               ENABLED SliderMoved(q) =>
                   FirstInteracted(view_state[Part1ViewKey(current_caption)], q)
          /\ \A q \in 0..(Len(Part3QuestionIds) - 1) :
               ENABLED RadioChosen(q) =>
                   FirstInteracted(view_state[Part3ViewKey(current_comp)], q))
    /\ [][ /\ \A k \in RatingViews(view_state) \cap RatingViews(view_state') :
               \A j \in DOMAIN view_state[k].interacted :
                  view_state[k].interacted[j] => view_state'[k].interacted[j]
           /\ Part1SubmitRatings =>
                  FirstInteracted(view_state[Part1ViewKey(current_caption)],
                                  Len(Part1QuestionIds))
           /\ Part3SubmitComparison =>
                  FirstInteracted(view_state[Part3ViewKey(current_comp)],
                                  Len(Part3QuestionIds))
       ]_vars

\* C21: the five sliders of caption capA1 were moved one after the other, the
\* last one just now: the submit control is shown
AllSlidersMoved ==
    /\ last.act = "mark_interacted"
    /\ Part1ShowsItem /\ current_video_index = 0 /\ current_caption_index = 0
    /\ Part1ViewKey(current_caption) \in DOMAIN view_state
    /\ view_state[Part1ViewKey(current_caption)].step = 6 + Len(Part1QuestionIds)
    /\ FirstInteracted(view_state[Part1ViewKey(current_caption)], Len(Part1QuestionIds))

\* the item under the cursor: its media id and the key of its view state
CurrentItem ==
    CASE page = "quiz" ->
           [ video_id |-> sample.video_id, view |-> QuizViewKey(sample) ]
      [] page = "user_study_main" /\ study_part = 1 ->
           [ video_id |-> current_video.video_id, view |-> Part1ViewKey(current_caption) ]
      [] page = "user_study_main" /\ study_part = 2 ->
           [ video_id |-> current_change.video_id, view |-> Part2ViewKey(current_change) ]
      [] page = "user_study_main" /\ study_part = 3 ->
           [ video_id |-> current_comp.video_id, view |-> Part3ViewKey(current_comp) ]

ComprehensionProceeds ==
    { "quiz_comprehension_proceed", "part1_comprehension_proceed",
      "part2_comprehension_proceed", "part3_comprehension_proceed" }

\* C22: comprehension_passed_video_ids changes only in a run of "Proceed to
\* Caption(s)"; that button is clicked only on an item whose comprehension
\* form was submitted with an option chosen (comp_feedback is set and
\* comp_choice is the option), and the run adds exactly the media id of the
\* item under the cursor to the set.
WatchedOnlyByProceed ==
    [][ /\ comprehension_passed_video_ids' # comprehension_passed_video_ids =>
              last'.act \in ComprehensionProceeds
        /\ last'.act \in ComprehensionProceeds =>
              /\ view_state[CurrentItem.view].comp_feedback
              /\ view_state[CurrentItem.view].comp_choice \in ComprehensionInputs \ { None }
              /\ comprehension_passed_video_ids' =
                    comprehension_passed_video_ids \cup { CurrentItem.video_id }
      ]_vars

\* C22: the comprehension check of the quiz sample ti1 was answered with a
\* distractor and "Proceed to Caption(s)" was clicked: vidA is in the set
WatchedAfterWrongAnswer ==
    /\ last.act = "quiz_comprehension_proceed"
    /\ page = "quiz" /\ current_part_index = 0 /\ current_sample_index = 0
    /\ view_state[QuizViewKey(sample)].comp_choice = "distractor_answer"
    /\ view_state[QuizViewKey(sample)].step = 5
    /\ comprehension_passed_video_ids = { "vidA" }

ShowQuestionsClicks ==
    { "quiz_show_questions", "part1_show_questions", "part2_show_questions",
      "part3_show_questions" }

\* the study items: the initial step of their view state is 5 when
\* has_been_watched holds (for a later caption of a video, whose first caption
\* was rated before, in any case)
StudyExposures == { item \in GatedItems : item.view \notin { QuizViewKey(s) : s \in QuizSamples } }

\* the view state of a study item is at step 5 without a comprehension check
\* having been answered in it, and the media id of the item is in
\* comprehension_passed_video_ids: the item was entered at step 5 as a repeat
\* exposure
RepeatExposure(item) ==
    /\ item \in StudyExposures
    /\ view_state[item.view].step = 5
    /\ ~view_state[item.view].comp_feedback
    /\ item.video_id \in comprehension_passed_video_ids

\* C23: when the step of a view state goes from 5 to 6, the run is a click of
\* "Show Questions" exactly when the item is not a repeat exposure that was
\* entered at step 5 because its media id is in the set; the step of such a
\* repeat exposure advances in a run without a click.
RepeatExposureAutoAdvances ==
    [][ \A item \in GatedItems \cup
                    { [ video_id |-> s.video_id, view |-> QuizViewKey(s),
                        timer |-> QuizTimerKey(s) ] : s \in QuizSamples } :
           ( /\ item.view \in DOMAIN view_state \cap DOMAIN view_state'
             /\ view_state[item.view].step = 5
             /\ view_state'[item.view].step = 6 ) =>
               (last'.act \in ShowQuestionsClicks <=> ~RepeatExposure(item))
      ]_vars

RenderRuns == { "quiz_render", "part1_render", "part2_render", "part3_render" }

\* C24: the summary_typed flag of an item is one-way.  A flag that is set
\* stays set in every run (sidebar jumps, revisits, quiz restart included),
\* and a flag is set only by a run that draws the item, so the run that plays
\* the reveal of an item (it draws the summary with the flag not set) happens
\* at most once.  Every item of the content carries a video_id.
SummaryFlagOneWay ==
    [][ /\ summary_typed \subseteq summary_typed'
        /\ summary_typed' # summary_typed => last'.act \in RenderRuns
      ]_vars

\* C24: after a quiz restart the sample ti1 is at step 2 again, with a new view
\* state, and its flag is still set: the summary is drawn without the reveal
SummaryNotReplayedAfterRestart ==
    /\ history.restarts > 0
    /\ page = "quiz" /\ current_part_index = 0 /\ current_sample_index = 0
    /\ last.act = "quiz_proceed_to_summary"
    /\ view_state[QuizViewKey(sample)].step = 2
    /\ QuizSummaryKey(sample) \in summary_typed

\* C26: in every run of "Submit Answer" that calls save_response (one call
\* per run), whatever the network and the file system do in the call: the
\* backup file is written only when the worksheet is not reached or an
\* append_row raised, and then the sheet gets no row; when the primary append
\* works the row goes to the sheet and the backup file is not touched; True is
\* returned exactly when the row was written to one of the two channels (once),
\* and False exactly when the primary channel failed and the write of the
\* backup file failed as well, in which case no channel has a new row (the
\* call does not try again).
FallbackOnlyOnPrimaryFailure ==
    [][ (last'.act = "quiz_submit_answer" /\ last'.saved # <<>>) =>
          \A o \in Outcomes :
             ( /\ Consulted(sink, o)
               /\ save_response(sink, QuizRow, o) = [ snk |-> sink', ok |-> last'.saved[1] ] ) =>
                 LET ok == last'.saved[1]
                     primary_ok ==
                         /\ sink.gsheet # "none"
                         /\ sink.gsheet = "uncached" => o.conn
                         /\ o.append = "ok"
                     rows_before == Len(sink.sheet) + Len(sink.backup)
                     rows_after == Len(sink'.sheet) + Len(sink'.backup)
                 IN  /\ Len(last'.saved) = 1
                     /\ sink'.backup # sink.backup => ~primary_ok /\ sink'.sheet = sink.sheet
                     /\ primary_ok =>
                           /\ sink'.sheet = Append(sink.sheet, QuizRow)
                           /\ sink'.backup = sink.backup
                     /\ ok <=> ( /\ RecordedIn(sink', QuizRow) = RecordedIn(sink, QuizRow) + 1
                                 /\ rows_after = rows_before + 1 )
                     /\ ~ok <=> (~primary_ok /\ ~o.local)
                     /\ ~ok => sink'.sheet = sink.sheet /\ sink'.backup = sink.backup
      ]_vars

\* C26: the answer to the first quiz question was submitted while append_row
\* raised: the row is in the backup file, not in the sheet, and save_response
\* returned True
SavedToBackupOnly ==
    /\ last.act = "quiz_submit_answer"
    /\ last.saved = << TRUE >>
    /\ sink.gsheet = "worksheet"
    /\ sink.sheet = <<>>
    /\ sink.backup = << << "quiz", "ti1", 1 >> >>

\* the cursor after the click as C28 describes it, for a sample with
\* n_questions questions in a part of n_samples samples
SubQuestionFirst(caption_quality, n_questions, n_samples, part, smp, rating) ==
    IF caption_quality /\ rating < n_questions - 1 THEN << part, smp, rating + 1 >>
    ELSE IF smp < n_samples - 1 THEN << part, smp + 1, 0 >>
    ELSE << part + 1, 0, 0 >>

\* C28: "Next Question" / "Finish Quiz" iterates the sub-question index before
\* the sample index.  In a Caption Quality part the click increments the
\* sub-question index while the sample has a further question, else moves to
\* the next sample with sub-question index 0, and after the last sample to the
\* next part with sample index 0; in the other parts, where the sub-question
\* index is 0, it moves to the next sample or, after the last sample, to the
\* next part, and leaves the sub-question index at 0.  This holds for every
\* click of the session and, for the arithmetic of the handler, for all parts
\* of up to MaxSamples samples with up to MaxSubQuestions questions.
SubQuestionBeforeSample ==
    [][ last'.act = "handle_next_quiz_question" =>
          /\ quiz_cursor' =
                SubQuestionFirst(IsCaptionQuality, Len(sample.questions),
                                 Len(questions_for_part), current_part_index,
                                 current_sample_index, current_rating_question_index)
          /\ ~IsCaptionQuality =>
                current_rating_question_index = 0 /\ current_rating_question_index' = 0
          /\ \A caption_quality \in BOOLEAN :
             \A n_questions \in 1..MaxSubQuestions : \A n_samples \in 1..MaxSamples :
             \A part \in 0..(Len(part_keys) - 1) : \A smp \in 0..(n_samples - 1) :
             \A rating \in (IF caption_quality THEN 0..(n_questions - 1) ELSE { 0 }) :
                AdvanceQuizCursor(caption_quality, n_questions, n_samples, part, smp, rating)
                   = SubQuestionFirst(caption_quality, n_questions, n_samples, part, smp,
                                      rating)
      ]_vars

\* C28: "Next Question" was clicked on the first question of the Caption
\* Quality sample cq1: the cursor is on its second question
SecondSubQuestionNext ==
    /\ last.act = "handle_next_quiz_question"
    /\ page = "quiz" /\ current_part_index < Len(part_keys) /\ IsCaptionQuality
    /\ current_sample_index = 0
    /\ current_rating_question_index = 1

\* C29: the button of the feedback view is labelled "Finish Quiz"
\* (is_last_question) exactly when the part index and the sample index, and in
\* a Caption Quality part the sub-question index, are at their maxima, and
\* exactly when the click moves the part index past the last part; otherwise
\* the click leaves the part index on a part of the quiz.  This holds for
\* every click of the session and, for the arithmetic of the label and of the
\* handler, for all parts of up to MaxSamples samples with up to
\* MaxSubQuestions questions.
FinishLabelOnLastQuestion ==
    [][ last'.act = "handle_next_quiz_question" =>
          /\ is_last_question <=>
                /\ current_part_index = Len(part_keys) - 1
                /\ current_sample_index = Len(questions_for_part) - 1
                /\ IsCaptionQuality =>
                      current_rating_question_index = Len(sample.questions) - 1
          /\ is_last_question <=> current_part_index' >= Len(part_keys)
          /\ ~is_last_question => current_part_index' \in 0..(Len(part_keys) - 1)
          /\ \A caption_quality \in BOOLEAN :
             \A n_questions \in 1..MaxSubQuestions : \A n_samples \in 1..MaxSamples :
             \A part \in 0..(Len(part_keys) - 1) : \A smp \in 0..(n_samples - 1) :
             \A rating \in (IF caption_quality THEN 0..(n_questions - 1) ELSE { 0 }) :
                IsLastQuestion(caption_quality, Len(part_keys), n_questions, n_samples,
                               part, smp, rating)
                <=> AdvanceQuizCursor(caption_quality, n_questions, n_samples, part, smp,
                                      rating)[1] >= Len(part_keys)
      ]_vars

\* C29: "Finish Quiz" was clicked on the last question of the quiz: the part
\* index is past the last part
FinishQuizClicked ==
    /\ last.act = "handle_next_quiz_question"
    /\ page = "quiz"
    /\ quiz_cursor = << Len(part_keys), 0, 0 >>

\* the cursor is on the designated sample: sample index 0 of the part named
\* "Part 2: Tone Controllability Evaluation"
OnDesignatedSample ==
    /\ page = "quiz" /\ current_part_index < Len(QuizPartKeys)
    /\ QuizPartKeys[current_part_index + 1] = "Part 2: Tone Controllability Evaluation"
    /\ current_sample_index = 0

\* C30: the designated quiz sample skips the gate, the reveal of the summary
\* and the comprehension check.  While the cursor is on it, no watch timer
\* runs and its timer flag is never set, its view state is at step 5 or later
\* with no comprehension answer recorded, and the comprehension form and
\* "Proceed to Caption(s)" cannot be used; the run that creates its view state
\* creates it at step 5 and marks the summary as typed without playing the
\* reveal; and no run on it changes comprehension_passed_video_ids.
DesignatedSampleSkipsGate ==
    /\ [](OnDesignatedSample =>
            /\ ~QuizTimerGate
            /\ ~ENABLED QuizWatchTimer
            /\ QuizTimerKey(sample) \notin timer_finished
            /\ ~ENABLED QuizComprehensionSubmit
            /\ ~ENABLED QuizComprehensionProceed
            /\ QuizViewKey(sample) \in DOMAIN view_state =>
                  /\ view_state[QuizViewKey(sample)].step >= 5
                  /\ ~view_state[QuizViewKey(sample)].comp_feedback
                  /\ view_state[QuizViewKey(sample)].comp_choice = None)
    /\ [][ OnDesignatedSample =>
            /\ ( /\ QuizViewKey(sample) \notin DOMAIN view_state
                 /\ QuizViewKey(sample) \in DOMAIN view_state' ) =>
                   /\ view_state'[QuizViewKey(sample)].step = 5
                   /\ ~QuizStreamsSummary(5)
                   /\ QuizSummaryKey(sample) \in summary_typed'
            /\ comprehension_passed_video_ids' = comprehension_passed_video_ids
       ]_vars

\* C30: the learner jumped to the second quiz part without having seen video
\* vidB: the designated sample tc1 is at step 6 and vidB is not in the set
DesignatedSampleAnswered ==
    /\ OnDesignatedSample
    /\ last.act = "quiz_show_questions"
    /\ view_state[QuizViewKey(sample)].step = 6
    /\ sample.video_id \notin comprehension_passed_video_ids
    /\ QuizTimerKey(sample) \notin timer_finished

\* the first script run of the session is over
SessionStarted == ~NoSession

\* a run after the first one stopped at `if st.session_state.all_data is None`:
\* nothing but the demographics page state of the first run exists
SessionHalted == all_data = NoData /\ page = "demographics" /\ last.act = "init"

\* C25 (as stated): once the session has started, if any of the five content
\* files, the intro video or the video of a quiz or study item is absent,
\* loading has failed and the session is halted: no page was rendered and no
\* transition was taken.
MissingAssetHalts == (SessionStarted /\ files # AllFiles) => SessionHalted

\* what the code does for C25: the session is halted when one of the five
\* content files or the intro video is absent
RequiredFileMissingHalts ==
    (SessionStarted /\ ~(required_files \cup { INTRO_VIDEO_PATH } \subseteq files))
        => SessionHalted

\* what the code does for C25: with only videos of items absent the content is
\* loaded, the items getting the default metadata, and the session goes on
ItemVideoMissingLoads ==
    (SessionStarted /\ required_files \cup { INTRO_VIDEO_PATH } \subseteq files)
        => /\ all_data # NoData
           /\ \A item \in DOMAIN all_data.metadata :
                 video_path(item) \notin files =>
                     all_data.metadata[item] = [ orientation |-> "landscape", duration |-> 10 ]

\* the term has a text in the category of the definitions document
DefinedIn(category, term) ==
    category \in DOMAIN definitions /\ term \in DOMAIN definitions[category]

\* C27: once the content is loaded, the lookup of a term returns the text of
\* applications if the term is defined there, else the text of writing_styles
\* if it is defined there, else the text of tones if it is defined there, and
\* finds nothing for a term defined in no category.
LookupLastWriterWins ==
    (SessionStarted /\ all_data # NoData) =>
        \A term \in Terms \cup { "Undefined" } :
            definition_of(term) =
                IF DefinedIn("applications", term) THEN definitions["applications"][term]
                ELSE IF DefinedIn("writing_styles", term)
                     THEN definitions["writing_styles"][term]
                ELSE IF DefinedIn("tones", term) THEN definitions["tones"][term]
                ELSE None

\* C27: the content was loaded from a document where one term is defined in
\* all three categories and another only in tones and writing_styles
TermDefinedInEveryCategory ==
    /\ last.act = "init" /\ all_data # NoData
    /\ \A c \in Categories : DefinedIn(c, "Formal")
    /\ DefinedIn("tones", "Playful") /\ DefinedIn("writing_styles", "Playful")
    /\ ~DefinedIn("applications", "Playful")
    /\ definition_of("Formal") = DefinitionText("applications", "Formal")
    /\ definition_of("Playful") = DefinitionText("writing_styles", "Playful")

\* C31: the view state of an item is discarded in the run that advances the
\* cursor past it, and created only by a run that draws the item.  After a
\* click of "Next Question" in the quiz and after a study submission whose
\* save_response calls all succeeded, the view state of the item that was
\* under the cursor does not exist; and a view state that did not exist
\* before a run exists after it only if the run drew the page and the view
\* state is the one of the item under the cursor.
ViewStateDiscardedOnAdvance ==
    [][ /\ last'.act = "handle_next_quiz_question" =>
              CurrentItem.view \notin DOMAIN view_state'
        /\ (last'.act \in StudySubmits /\ Succeeded(last'.saved)) =>
              /\ CurrentItem.view \notin DOMAIN view_state'
              /\ study_cursor' # study_cursor
        /\ \A k \in (DOMAIN view_state') \ (DOMAIN view_state) :
              /\ last'.act \in RenderRuns
              /\ k = CurrentItem.view
              /\ quiz_cursor' = quiz_cursor /\ study_cursor' = study_cursor
      ]_vars

\* C31: the ratings of caption capA1 were submitted and saved: the cursor is on
\* capA2, no view state exists for capA1, and none yet for capA2
ViewStateGoneAfterSubmission ==
    /\ page = "user_study_main" /\ study_part = 1
    /\ current_video_index = 0 /\ current_caption_index = 1
    /\ last.act = "part1_submit_ratings" /\ Succeeded(last.saved)
    /\ Part1ViewKey(all_videos[1].captions[1]) \notin DOMAIN view_state
    /\ Part1ViewKey(current_caption) \notin DOMAIN view_state

\* C32: in study part 1 the run that creates the view state of a caption
\* creates it at step 5 when the caption is not the first of its video; at
\* step 5, with the summary flag of the video set and no watch timer run, when
\* the caption is the first and the video id is in
\* comprehension_passed_video_ids; and at step 1, with the timer flag of the
\* video set, when the caption is the first and the video id is not in the set.
\* No watch timer can run on a caption that is not the first or whose video id
\* is in the set.
Part1CreatedAtFiveUnlessFirstUnwatched ==
    /\ []( ( /\ Part1ShowsItem
             /\ \/ current_caption_index > 0
                \/ current_video.video_id \in comprehension_passed_video_ids )
           => ~ENABLED Part1WatchTimer )
    /\ [][ ( /\ Part1ShowsItem
             /\ Part1ViewKey(current_caption) \notin DOMAIN view_state
             /\ Part1ViewKey(current_caption) \in DOMAIN view_state' ) =>
           LET v == view_state'[Part1ViewKey(current_caption)]
           IN  /\ last'.act = "part1_render"
               /\ timer_finished' = timer_finished
               /\ current_caption_index > 0 => v.step = 5
               /\ ( /\ current_caption_index = 0
                    /\ current_video.video_id \in comprehension_passed_video_ids ) =>
                      /\ v.step = 5
                      /\ Part1SummaryKey(current_video) \in summary_typed'
               /\ ( /\ current_caption_index = 0
                    /\ current_video.video_id \notin comprehension_passed_video_ids ) =>
                      /\ v.step = 1
                      /\ Part1TimerKey(current_video) \in timer_finished
                      /\ Part1SummaryKey(current_video) \notin summary_typed'
       ]_vars

\* C32: the first caption of video vidA was drawn for the first time in the
\* study with vidA already watched in the quiz: its view state is at step 5,
\* no comprehension answer in it, the watch timer of the video never ran
FirstCaptionCreatedAtFive ==
    /\ Part1ShowsItem /\ current_caption_index = 0
    /\ last.act = "part1_render"
    /\ current_video.video_id \in comprehension_passed_video_ids
    /\ Part1TimerKey(current_video) \notin timer_finished
    /\ view_state[Part1ViewKey(current_caption)].step = 5
    /\ ~view_state[Part1ViewKey(current_caption)].comp_feedback
    /\ Part1SummaryKey(current_video) \in summary_typed

\* C33 (as stated): in every reachable state the score is at most
\* total_scorable_questions, the denominator that quiz_results displays.
ScoreWithinTotal == score <= total_scorable_questions

\* for C33: the denominator of the content instance
TotalIsFive == total_scorable_questions = 5

\* C34 (as stated): on the page final_thank_you every item of study parts 1, 2
\* and 3 has had a successful submission.  A successful submission of an item
\* leaves the row of its first answer in the sink, so it is enough to ask for
\* that row.
FinalOnlyAfterEveryItem ==
    page = "final_thank_you" => \A item \in StudyItems : RecordedIn(sink, item.row) > 0

\* C35 (as stated): a study submission in which some save_response call failed,
\* and which therefore does not advance the cursor, records none of its
\* answers: the sheet and the backup hold the same rows after it as before.
FailedSubmissionRecordsNothing ==
    [][ (last'.act \in StudySubmits /\ Failed(last'.saved)) =>
            /\ study_cursor' = study_cursor
            /\ sink'.sheet = sink.sheet
            /\ sink'.backup = sink.backup
      ]_vars

\* C36: in every reachable state with current_caption_index > 0 the study is
\* in part 1 on an existing video, and the id of that video is in
\* comprehension_passed_video_ids.
LaterCaptionOnlyOfWatchedVideo ==
    current_caption_index > 0 =>
        /\ page = "user_study_main" /\ study_part = 1
        /\ current_video_index < Len(all_videos)
        /\ current_caption_index < Len(all_videos[current_video_index + 1].captions)
        /\ all_videos[current_video_index + 1].video_id \in comprehension_passed_video_ids

\* C36: the second caption of vidA is drawn after the first was submitted in
\* a session that used a sidebar jump
SecondCaptionDrawn ==
    /\ page = "user_study_main" /\ study_part = 1 /\ current_caption_index = 1
    /\ history.jumps > 0
    /\ Part1ViewKey(current_caption) \in DOMAIN view_state
    /\ last.act = "part1_render"

ComprehensionSubmits ==
    { "quiz_comprehension_submit", "part1_comprehension_submit",
      "part2_comprehension_submit", "part3_comprehension_submit" }

\* C37: as long as a view state exists, its step goes from below 5 to 5 or
\* more only in a state where a comprehension answer is recorded in it
\* (comp_feedback set and comp_choice an option); a recorded answer is never
\* changed or withdrawn; and the comprehension form is submitted only on a
\* view state with no answer recorded, so never a second time.
ComprehensionBeforeCaptions ==
    [][ /\ \A k \in (DOMAIN view_state) \cap (DOMAIN view_state') :
              /\ (view_state[k].step < 5 /\ view_state'[k].step >= 5) =>
                    /\ view_state[k].comp_feedback
                    /\ view_state[k].comp_choice \in ComprehensionInputs \ { None }
                    /\ view_state[k].step \in {3, 4}
                    /\ last'.act \in ComprehensionProceeds
              /\ view_state[k].comp_feedback =>
                    /\ view_state'[k].comp_feedback
                    /\ view_state'[k].comp_choice = view_state[k].comp_choice
              /\ view_state'[k].comp_feedback =>
                    view_state'[k].comp_choice \in ComprehensionInputs \ { None }
        /\ last'.act \in ComprehensionSubmits =>
              ~view_state[CurrentItem.view].comp_feedback
      ]_vars

\* C37: the sample ti1, entered at step 1, is at the questions with its
\* comprehension answer recorded
AnsweredThenAtQuestions ==
    /\ page = "quiz" /\ current_part_index = 0 /\ current_sample_index = 0
    /\ QuizViewKey(sample) \in DOMAIN view_state
    /\ view_state[QuizViewKey(sample)].step = 6
    /\ view_state[QuizViewKey(sample)].comp_feedback
    /\ view_state[QuizViewKey(sample)].comp_choice \in ComprehensionInputs \ { None }
    /\ history.restarts = 0 /\ history.jumps = 0

\* what no sidebar jump touches: the page, the participant, the score, the
\* watched set, the view states, the timer and summary flags, and the sink
KeptByJumps ==
    << page, email, age, gender, score, comprehension_passed_video_ids,
       view_state, timer_finished, summary_typed, sink >>

\* C38: a run of jump_to_part changes only the quiz cursor and show_feedback
\* (sample and sub-question index 0, feedback hidden); a run of
\* jump_to_study_part or jump_to_study_item changes only study_part and the
\* four study indices, and leaves the quiz cursor and show_feedback alone:
\* jump_to_study_part sets all four indices to 0, jump_to_study_item keeps
\* study_part, sets the index of the current part to an item of that part and
\* the caption index and the indices of the other parts to 0.  None of them
\* changes the page, the participant, the score, the watched set, a view
\* state, a timer or summary flag, or the sink.
JumpsChangeOnlyCursors ==
    [][ /\ last'.act = "jump_to_part" =>
              /\ UNCHANGED KeptByJumps /\ UNCHANGED study_cursor
              /\ current_part_index' \in 0..(Len(QuizPartKeys) - 1)
              /\ current_sample_index' = 0 /\ current_rating_question_index' = 0
              /\ show_feedback' = FALSE
        /\ last'.act = "jump_to_study_part" =>
              /\ UNCHANGED KeptByJumps /\ UNCHANGED << quiz_cursor, show_feedback >>
              /\ study_part' \in 1..3
              /\ current_video_index' = 0 /\ current_caption_index' = 0
              /\ current_change_index' = 0 /\ current_comparison_index' = 0
        /\ last'.act = "jump_to_study_item" =>
              /\ UNCHANGED KeptByJumps /\ UNCHANGED << quiz_cursor, show_feedback >>
              /\ study_part' = study_part
              /\ current_caption_index' = 0
              /\ IF study_part = 1 THEN current_video_index' \in 0..(Len(all_videos) - 1)
                 ELSE current_video_index' = 0
              /\ IF study_part = 2 THEN current_change_index' \in 0..(Len(all_changes) - 1)
                 ELSE current_change_index' = 0
              /\ IF study_part = 3
                 THEN current_comparison_index' \in 0..(Len(all_comparisons) - 1)
                 ELSE current_comparison_index' = 0
      ]_vars

\* C38: "Jump to Item" was clicked in part 2, reached by finishing part 1:
\* view states, flags and sink rows exist and the video index is back at 0
JumpedInPartTwo ==
    /\ last.act = "jump_to_study_item" /\ study_part = 2
    /\ current_video_index = 0
    /\ comprehension_passed_video_ids # {}
    /\ timer_finished # {} /\ summary_typed # {}
    /\ sink.sheet # <<>>

\* quiz_results with Status: Failed
QuizFailed == page = "quiz_results" /\ ~Passed

\* C39: a participant who goes forward and keeps acting, on loaded content and
\* with finitely many failures of the sink, either ends on quiz_results with
\* Status: Failed for good (the quiz was never passed) or reaches
\* final_thank_you and stays there for good.  On the way every watch timer
\* ends, a completed part 1 leads to part 2, a completed part 2 to part 3 and a
\* completed part 3 to final_thank_you; final_thank_you is never left.  The
\* run has no dead end before that: it cannot stay for good in any other state.
ForwardSessionCompletes ==
    /\ <>[](page = "final_thank_you") \/ <>[]QuizFailed
    /\ [][page = "final_thank_you" => page' = "final_thank_you"]_vars
    /\ TimerGate ~> ~TimerGate
    /\ Part1Completed ~> (study_part = 2)
    /\ Part2Completed ~> (study_part = 3)
    /\ Part3Completed ~> (page = "final_thank_you")

\* C39: final_thank_you is reached after a failed quiz attempt and a restart,
\* with every study item answered and recorded
CompletedAfterRestart ==
    /\ page = "final_thank_you"
    /\ all_data # NoData
    /\ history.restarts > 0 /\ history.jumps = 0
    /\ score >= passing_score
    /\ \A item \in StudyItems : RecordedIn(sink, item.row) > 0

====
